---- MODULE Spec2Model ----
(***************************************************************************)
(* A model of the redis-async core: the RESP frame codec (src/frame.rs),   *)
(* the framed connection (src/connection.rs) and the client facade         *)
(* (src/client.rs).                                                        *)
(*                                                                         *)
(* Bytes are one-character strings and byte buffers are sequences of them. *)
(* The byte alphabet is ASCII, so read_line never sees invalid UTF-8.      *)
(* A cursor position is the number of bytes already consumed (0-based).    *)
(***************************************************************************)
EXTENDS Integers, Sequences, FiniteSets, TLC

(***************************************************************************)
(* Byte helpers                                                            *)
(***************************************************************************)
CR == "\r"
LF == "\n"
CRLF == <<CR, LF>>

Digit == <<"0", "1", "2", "3", "4", "5", "6", "7", "8", "9">>

IsDigit(c) == \E i \in 1..10 : Digit[i] = c

DigitVal(c) == (CHOOSE i \in 1..10 : Digit[i] = c) - 1

Min(a, b) == IF a < b THEN a ELSE b

\* s[from..to] with 1-based inclusive bounds, empty when to < from
Slice(s, from, to) == IF to < from THEN <<>> ELSE SubSeq(s, from, to)

\* the first n elements of s
Take(s, n) == Slice(s, 1, Min(n, Len(s)))

\* s without its first n elements
Drop(s, n) == Slice(s, n + 1, Len(s))

StartsWith(s, p) == Len(s) >= Len(p) /\ Take(s, Len(p)) = p

EndsWith(s, p) == Len(s) >= Len(p) /\ Drop(s, Len(s) - Len(p)) = p

RECURSIVE Concat(_)
Concat(ss) == IF ss = <<>> THEN <<>> ELSE Head(ss) \o Concat(Tail(ss))

\* the byte 0xFF, which occurs in no UTF-8 text, and the three bytes of the
\* UTF-8 encoding of U+FFFD
ByteFF == "FF"
ReplacementChar == <<"EF", "BF", "BD">>

\* String::from_utf8_lossy(..).to_string(), then the bytes of the String: every
\* byte that is not part of a UTF-8 sequence becomes U+FFFD
RECURSIVE FromUtf8Lossy(_)
FromUtf8Lossy(b) ==
    IF b = <<>> THEN <<>>
    ELSE (IF Head(b) = ByteFF THEN ReplacementChar ELSE <<Head(b)>>)
         \o FromUtf8Lossy(Tail(b))

(***************************************************************************)
(* Integer widths.  i64, isize and usize are 64 bits wide in the program;  *)
(* the model scales the width down to IntBits so that the limits stay      *)
(* inside the integers of TLC.                                             *)
(***************************************************************************)
IntBits == 16

I64Max == 2 ^ (IntBits - 1) - 1
I64Min == -(2 ^ (IntBits - 1))
USizeMax == 2 ^ IntBits - 1

\* `n as i64` for a u64 n: the value modulo 2^64, read as a signed integer
AsI64(n) == IF n > I64Max THEN n - 2 ^ IntBits ELSE n

(***************************************************************************)
(* Decimal text: to_string and str::parse for the integer types            *)
(***************************************************************************)
RECURSIVE NatToString(_)
NatToString(n) ==
    IF n < 10 THEN <<Digit[n + 1]>>
    ELSE NatToString(n \div 10) \o <<Digit[(n % 10) + 1]>>

\* i64::to_string / usize::to_string
IntToString(n) == IF n < 0 THEN <<"-">> \o NatToString(-n) ELSE NatToString(n)

\* the value of a digit string, saturating just above cap
RECURSIVE DigitsValue(_, _, _)
DigitsValue(s, acc, cap) ==
    IF s = <<>> THEN acc
    ELSE IF acc > cap THEN cap + 1
    ELSE DigitsValue(Tail(s), acc * 10 + DigitVal(Head(s)), cap)

\* str::parse::<i64>, ::<isize> (signed) and ::<usize> (unsigned): an
\* optional leading '+' (and '-' for the signed types), then one or more
\* digits; Empty, InvalidDigit and overflow are all errors.
ParseInt(s, signed) ==
    LET neg == signed /\ s # <<>> /\ Head(s) = "-"
        ds == IF s # <<>> /\ (Head(s) = "+" \/ neg) THEN Tail(s) ELSE s
        mag == DigitsValue(ds, 0, USizeMax)
        val == IF neg THEN -mag ELSE mag
    IN  IF ds = <<>> \/ \E i \in 1..Len(ds) : ~IsDigit(ds[i])
        THEN [ok |-> FALSE, v |-> 0]
        ELSE IF signed /\ (val < I64Min \/ val > I64Max)
        THEN [ok |-> FALSE, v |-> 0]
        ELSE IF ~signed /\ val > USizeMax
        THEN [ok |-> FALSE, v |-> 0]
        ELSE [ok |-> TRUE, v |-> val]

(***************************************************************************)
(* Frames.  A frame is a record [t, v]: t the variant, v its payload.      *)
(***************************************************************************)
SimpleString(s) == [t |-> "SimpleString", v |-> s]
SimpleError(s) == [t |-> "SimpleError", v |-> s]
Integer(n) == [t |-> "Integer", v |-> n]
BulkString(b) == [t |-> "BulkString", v |-> b]
Array(fs) == [t |-> "Array", v |-> fs]
Null == [t |-> "Null", v |-> <<>>]
Boolean(b) == [t |-> "Boolean", v |-> b]
Double(d) == [t |-> "Double", v |-> d]
BigNumber(sign, data) == [t |-> "BigNumber", v |-> <<sign, data>>]
BulkError(b) == [t |-> "BulkError", v |-> b]
VerbatimString(enc, b) == [t |-> "VerbatimString", v |-> <<enc, b>>]
Map(pairs) == [t |-> "Map", v |-> pairs]
Attribute == [t |-> "Attribute", v |-> <<>>]
Set(fs) == [t |-> "Set", v |-> fs]
Push == [t |-> "Push", v |-> <<>>]

\* the absence of a frame (a failed parse, Option::None)
NoFrame == [t |-> "None", v |-> <<>>]

(***************************************************************************)
(* f64 values.  A finite double is held as its shortest decimal form:      *)
(* sign, integer part, fraction digits without trailing zeros.             *)
(***************************************************************************)
NaN == [k |-> "nan", neg |-> FALSE, ip |-> 0, fr |-> <<>>]
Infinity == [k |-> "inf", neg |-> FALSE, ip |-> 0, fr |-> <<>>]
NegInfinity == [k |-> "inf", neg |-> TRUE, ip |-> 0, fr |-> <<>>]
Finite(neg, ip, fr) == [k |-> "fin", neg |-> neg, ip |-> ip, fr |-> fr]

\* f64::to_string of a finite value: "1", "0.5", "-0", never an exponent
F64ToString(d) ==
    (IF d.neg THEN <<"-">> ELSE <<>>)
        \o NatToString(d.ip)
        \o (IF d.fr = <<>> THEN <<>> ELSE <<".">> \o d.fr)

RECURSIVE StripTrailingZeros(_)
StripTrailingZeros(s) ==
    IF s # <<>> /\ s[Len(s)] = "0" THEN StripTrailingZeros(Take(s, Len(s) - 1))
    ELSE s

\* the index of the first "." in s, or 0
DotIndex(s) ==
    IF \E i \in 1..Len(s) : s[i] = "."
    THEN CHOOSE i \in 1..Len(s) : s[i] = "." /\ \A j \in 1..(i - 1) : s[j] # "."
    ELSE 0

\* str::parse::<f64> on the decimal forms without exponent: an optional
\* sign, then "inf", "nan", or digits with an optional fraction and at least
\* one digit in all.
ParseF64(s) ==
    LET neg == s # <<>> /\ Head(s) = "-"
        body == IF s # <<>> /\ (Head(s) = "+" \/ Head(s) = "-") THEN Tail(s) ELSE s
        dot == DotIndex(body)
        ipart == IF dot = 0 THEN body ELSE Take(body, dot - 1)
        fpart == IF dot = 0 THEN <<>> ELSE Drop(body, dot)
    IN  IF body = <<"i", "n", "f">>
        THEN [ok |-> TRUE, v |-> IF neg THEN NegInfinity ELSE Infinity]
        ELSE IF body = <<"n", "a", "n">>
        THEN [ok |-> TRUE, v |-> NaN]
        ELSE IF \/ ipart \o fpart = <<>>
                \/ \E i \in 1..Len(ipart) : ~IsDigit(ipart[i])
                \/ \E i \in 1..Len(fpart) : ~IsDigit(fpart[i])
        THEN [ok |-> FALSE, v |-> NaN]
        ELSE [ok |-> TRUE,
              v |-> Finite(neg, DigitsValue(ipart, 0, I64Max),
                           StripTrailingZeros(fpart))]

(***************************************************************************)
(* Frame::serialize.  The result is [st, bytes]: st is "Ok", or "Panic"    *)
(* where the code reaches todo!().                                         *)
(***************************************************************************)
SerOk(b) == [st |-> "Ok", bytes |-> b]
SerPanic == [st |-> "Panic", bytes |-> <<>>]

RECURSIVE Serialize(_), SerializeAll(_)

\* the loop over the children of an aggregate: the first failure propagates
SerializeAll(fs) ==
    IF fs = <<>> THEN SerOk(<<>>)
    ELSE LET h == Serialize(Head(fs))
         IN  IF h.st # "Ok" THEN h
             ELSE LET r == SerializeAll(Tail(fs))
                  IN  IF r.st # "Ok" THEN r ELSE SerOk(h.bytes \o r.bytes)

\* the (key, value) pairs of a map, flattened in emission order
RECURSIVE FlattenPairs(_)
FlattenPairs(ps) ==
    IF ps = <<>> THEN <<>>
    ELSE <<Head(ps)[1], Head(ps)[2]>> \o FlattenPairs(Tail(ps))

\* an aggregate header that counts the frames emitted, not the entries
SerializeAggregateByFrames(tag, n, children) ==
    LET body == SerializeAll(children)
    IN  IF body.st # "Ok" THEN body
        ELSE SerOk(<<tag>> \o NatToString(Len(children)) \o CRLF \o body.bytes)

SerializeAggregate(tag, n, children) ==
    LET body == SerializeAll(children)
    IN  IF body.st # "Ok" THEN body
        ELSE SerOk(<<tag>> \o NatToString(n) \o CRLF \o body.bytes)

Serialize(f) ==
    CASE f.t = "SimpleString" -> SerOk(<<"+">> \o f.v \o CRLF)
      [] f.t = "SimpleError" -> SerOk(<<"-">> \o f.v \o CRLF)
      [] f.t = "Integer" -> SerOk(<<":">> \o IntToString(f.v) \o CRLF)
      [] f.t = "BulkString" ->
            SerOk(<<"$">> \o NatToString(Len(f.v)) \o CRLF \o f.v \o CRLF)
      [] f.t = "Array" -> SerializeAggregate("*", Len(f.v), f.v)
      [] f.t = "Null" -> SerOk(<<"_">> \o CRLF)
      [] f.t = "Boolean" -> SerOk(<<"#", IF f.v THEN "t" ELSE "f">> \o CRLF)
      [] f.t = "Double" ->
            SerOk(<<",">>
                  \o (IF f.v.k = "nan" THEN <<"n", "a", "n">>
                      ELSE IF f.v.k = "inf" /\ ~f.v.neg THEN <<"i", "n", "f">>
                      ELSE IF f.v.k = "inf" THEN <<"-", "i", "n", "f">>
                      ELSE F64ToString(f.v))
                  \o CRLF)
      [] f.t = "BigNumber" -> SerPanic
      [] f.t = "BulkError" ->
            SerOk(<<"!">> \o NatToString(Len(f.v)) \o CRLF \o f.v \o CRLF)
      [] f.t = "VerbatimString" ->
            SerOk(<<"=">> \o NatToString(Len(f.v[2]) + 4) \o CRLF
                  \o f.v[1] \o <<":">> \o f.v[2] \o CRLF)
      [] f.t = "Map" -> SerializeAggregate("%", Len(f.v), FlattenPairs(f.v))
      [] f.t = "Attribute" -> SerPanic
      [] f.t = "Set" -> SerializeAggregate("~", Len(f.v), f.v)
      [] f.t = "Push" -> SerPanic

(***************************************************************************)
(* Frame::try_parse.  The result is [st, frame, pos]: st is "Complete",    *)
(* an error ("IncompleteFrame", "InvalidFrame", "ParseIntError",           *)
(* "TryFromIntError") or "Panic" (todo!(), a slice index out of range, an  *)
(* arithmetic overflow); pos is the cursor position the call leaves.       *)
(***************************************************************************)
Parsed(f, pos) == [st |-> "Complete", frame |-> f, pos |-> pos]
Failed(st, pos) == [st |-> st, frame |-> NoFrame, pos |-> pos]

\* the outcomes of try_parse that reject the input: InvalidFrame, and the
\* errors of the integer conversions, which the connection passes on alike
Rejected(st) == st \in {"InvalidFrame", "ParseIntError", "TryFromIntError"}

\* the index of the first LF of b after position pos, or 0
NextLF(b, pos) ==
    IF \E i \in (pos + 1)..Len(b) : b[i] = LF
    THEN CHOOSE i \in (pos + 1)..Len(b) :
            b[i] = LF /\ \A j \in (pos + 1)..(i - 1) : b[j] # LF
    ELSE 0

\* BufRead::read_line on the cursor: the bytes from pos up to and including
\* the first LF, or up to the end of the buffer; the cursor moves past them
ReadLine(b, pos) ==
    LET lf == NextLF(b, pos)
        end == IF lf = 0 THEN Len(b) ELSE lf
    IN  [line |-> Slice(b, pos + 1, end), pos |-> end]

\* str::trim_end_matches("\r\n"): every trailing repetition is removed
RECURSIVE TrimEndCRLF(_)
TrimEndCRLF(s) ==
    IF EndsWith(s, CRLF) THEN TrimEndCRLF(Take(s, Len(s) - 2)) ELSE s

\* consecutive frames paired as (key, value)
RECURSIVE PairUp(_)
PairUp(fs) ==
    IF Len(fs) < 2 THEN <<>>
    ELSE <<<<fs[1], fs[2]>>>> \o PairUp(Tail(Tail(fs)))

RECURSIVE TryParseAt(_, _), ParseFrames(_, _, _)

\* for _ in 0..n { frame_vec.push(Frame::try_parse(cursor)?) }
ParseFrames(b, pos, n) ==
    IF n = 0 THEN [st |-> "Complete", frames |-> <<>>, pos |-> pos]
    ELSE LET h == TryParseAt(b, pos)
         IN  IF h.st # "Complete"
             THEN [st |-> h.st, frames |-> <<>>, pos |-> h.pos]
             ELSE LET r == ParseFrames(b, h.pos, n - 1)
                  IN  IF r.st # "Complete" THEN r
                      ELSE [st |-> "Complete",
                            frames |-> <<h.frame>> \o r.frames,
                            pos |-> r.pos]

\* the '+' and '-' arms
ParseSimple(b, pos, tag) ==
    LET rl == ReadLine(b, pos)
    IN  IF EndsWith(rl.line, CRLF)
        THEN Parsed([t |-> tag, v |-> TrimEndCRLF(rl.line)], rl.pos)
        ELSE Failed("IncompleteFrame", rl.pos)

\* the ':' arm
ParseInteger(b, pos) ==
    LET rl == ReadLine(b, pos)
        n == ParseInt(TrimEndCRLF(rl.line), TRUE)
    IN  IF ~EndsWith(rl.line, CRLF) THEN Failed("IncompleteFrame", rl.pos)
        ELSE IF ~n.ok THEN Failed("ParseIntError", rl.pos)
        ELSE Parsed(Integer(n.v), rl.pos)

\* a '$' arm that takes the body up to the next CRLF, whatever the length says
ParseBulkStringByLine(b, pos) ==
    LET rl == ReadLine(b, pos)
        body == ReadLine(b, rl.pos)
    IN  IF ~EndsWith(body.line, CRLF) THEN Failed("IncompleteFrame", body.pos)
        ELSE Parsed(BulkString(TrimEndCRLF(body.line)), body.pos)

\* the '$' arm.  len is an isize cast to usize unchecked: -2 overflows
\* `len as usize + 2` (a panic in a debug build, a wrap to 0 followed by an
\* out-of-range slice in a release build), a smaller length makes the sum
\* huge, so the frame looks incomplete.  The two bytes after the payload are
\* skipped without being compared with CRLF.
ParseBulkString(b, pos) ==
    LET rl == ReadLine(b, pos)
        n == ParseInt(TrimEndCRLF(rl.line), TRUE)
        remaining == Len(b) - rl.pos
    IN  IF ~EndsWith(rl.line, CRLF) THEN Failed("IncompleteFrame", rl.pos)
        ELSE IF ~n.ok THEN Failed("ParseIntError", rl.pos)
        ELSE IF n.v = -1 THEN Parsed(Null, rl.pos)
        ELSE IF n.v = -2 THEN Failed("Panic", rl.pos)
        ELSE IF n.v < -2 THEN Failed("IncompleteFrame", rl.pos)
        ELSE IF remaining < n.v + 2 THEN Failed("IncompleteFrame", rl.pos)
        ELSE Parsed(BulkString(Slice(b, rl.pos + 1, rl.pos + n.v)),
                    rl.pos + n.v + 2)

\* the '!' arm
ParseBulkError(b, pos) ==
    LET rl == ReadLine(b, pos)
        n == ParseInt(TrimEndCRLF(rl.line), TRUE)
        remaining == Len(b) - rl.pos
    IN  IF ~EndsWith(rl.line, CRLF) THEN Failed("IncompleteFrame", rl.pos)
        ELSE IF ~n.ok THEN Failed("ParseIntError", rl.pos)
        ELSE IF n.v = -1 THEN Parsed(Null, rl.pos)
        ELSE IF n.v < 0 THEN Failed("TryFromIntError", rl.pos)
        ELSE IF remaining < n.v + 2 THEN Failed("IncompleteFrame", rl.pos)
        ELSE IF b[rl.pos + n.v + 1] # CR \/ b[rl.pos + n.v + 2] # LF
        THEN Failed("InvalidFrame", rl.pos)
        ELSE Parsed(BulkError(Slice(b, rl.pos + 1, rl.pos + n.v)),
                    rl.pos + n.v + 2)

\* the '=' arm.  split_to(3) panics on a body shorter than three bytes and
\* advance(1) on a body of exactly three; the fourth byte is dropped
\* without being compared with ':'.
ParseVerbatimString(b, pos) ==
    LET rl == ReadLine(b, pos)
        n == ParseInt(TrimEndCRLF(rl.line), FALSE)
        remaining == Len(b) - rl.pos
        data == Slice(b, rl.pos + 1, rl.pos + n.v)
    IN  IF ~EndsWith(rl.line, CRLF) THEN Failed("IncompleteFrame", rl.pos)
        ELSE IF ~n.ok THEN Failed("ParseIntError", rl.pos)
        ELSE IF remaining < n.v + 2 THEN Failed("IncompleteFrame", rl.pos)
        ELSE IF ~StartsWith(Drop(b, rl.pos + n.v), CRLF)
        THEN Failed("InvalidFrame", rl.pos)
        ELSE IF n.v < 4 THEN Failed("Panic", rl.pos)
        ELSE Parsed(VerbatimString(Take(data, 3), Drop(data, 4)),
                    rl.pos + n.v + 2)

\* the '#' arm
ParseBoolean(b, pos) ==
    LET rl == ReadLine(b, pos)
        val == TrimEndCRLF(rl.line)
    IN  IF ~EndsWith(rl.line, CRLF) THEN Failed("IncompleteFrame", rl.pos)
        ELSE IF val = <<"t">> THEN Parsed(Boolean(TRUE), rl.pos)
        ELSE IF val = <<"f">> THEN Parsed(Boolean(FALSE), rl.pos)
        ELSE Failed("InvalidFrame", rl.pos)

\* the ',' arm
ParseDouble(b, pos) ==
    LET rl == ReadLine(b, pos)
        val == TrimEndCRLF(rl.line)
        d == ParseF64(val)
    IN  IF ~EndsWith(rl.line, CRLF) THEN Failed("IncompleteFrame", rl.pos)
        ELSE IF val = <<"n", "a", "n">> THEN Parsed(Double(NaN), rl.pos)
        ELSE IF val = <<"i", "n", "f">> THEN Parsed(Double(Infinity), rl.pos)
        ELSE IF val = <<"-", "i", "n", "f">>
        THEN Parsed(Double(NegInfinity), rl.pos)
        ELSE IF ~d.ok THEN Failed("InvalidFrame", rl.pos)
        ELSE Parsed(Double(d.v), rl.pos)

\* the '*', '~' and '%' arms: the count line is parsed as usize whether or
\* not it ends with CRLF, then the children follow
ParseAggregate(b, pos, tag) ==
    LET rl == ReadLine(b, pos)
        n == ParseInt(TrimEndCRLF(rl.line), FALSE)
        kids == ParseFrames(b, rl.pos, IF tag = "Map" THEN 2 * n.v ELSE n.v)
    IN  IF ~n.ok THEN Failed("ParseIntError", rl.pos)
        ELSE IF kids.st # "Complete" THEN Failed(kids.st, kids.pos)
        ELSE Parsed([t |-> tag,
                     v |-> IF tag = "Map" THEN PairUp(kids.frames)
                           ELSE kids.frames],
                    kids.pos)

TryParseAt(b, pos) ==
    IF pos >= Len(b) THEN Failed("IncompleteFrame", pos)
    ELSE LET c == b[pos + 1]
             p == pos + 1
         IN  CASE c = "+" -> ParseSimple(b, p, "SimpleString")
               [] c = "-" -> ParseSimple(b, p, "SimpleError")
               [] c = ":" -> ParseInteger(b, p)
               [] c = "$" -> ParseBulkString(b, p)
               [] c = "*" -> ParseAggregate(b, p, "Array")
               [] c = "_" -> Parsed(Null, p)
               [] c = "#" -> ParseBoolean(b, p)
               [] c = "," -> ParseDouble(b, p)
               [] c = "(" -> Failed("Panic", p)
               [] c = "!" -> ParseBulkError(b, p)
               [] c = "=" -> ParseVerbatimString(b, p)
               [] c = "%" -> ParseAggregate(b, p, "Map")
               [] c = "&" -> Failed("Panic", p)
               [] c = "~" -> ParseAggregate(b, p, "Set")
               [] c = ">" -> Failed("Panic", p)
               [] OTHER -> Failed("InvalidFrame", p)

\* Frame::try_parse on a fresh cursor over b
TryParse(b) == TryParseAt(b, 0)

\* Frame::deserialize: try_parse on a fresh cursor, the position is dropped
Deserialize(b) == TryParse(b)

(***************************************************************************)
(* Frame::check, the completeness check Connection::try_parse_frame calls  *)
(* before it splits the buffer.  It follows the parse rules of the         *)
(* specification (section 4.2): the result is [st, pos] with st one of     *)
(* "Complete", "IncompleteFrame", "InvalidFrame" and pos the first byte    *)
(* after the frame.                                                        *)
(***************************************************************************)
Checked(pos) == [st |-> "Complete", pos |-> pos]
CheckFailed(st, pos) == [st |-> st, pos |-> pos]

\* the index of the first CR or LF of b after position pos, or 0
NextBreak(b, pos) ==
    IF \E i \in (pos + 1)..Len(b) : b[i] \in {CR, LF}
    THEN CHOOSE i \in (pos + 1)..Len(b) :
            b[i] \in {CR, LF} /\ \A j \in (pos + 1)..(i - 1) : b[j] \notin {CR, LF}
    ELSE 0

\* a CRLF-terminated line starting at pos: incomplete while no CRLF has
\* arrived, invalid on a CR or LF that is not part of the terminator
CheckLine(b, pos) ==
    LET i == NextBreak(b, pos)
    IN  IF i = 0 THEN [st |-> "IncompleteFrame", line |-> <<>>, pos |-> pos]
        ELSE IF b[i] = LF THEN [st |-> "InvalidFrame", line |-> <<>>, pos |-> pos]
        ELSE IF i = Len(b) THEN [st |-> "IncompleteFrame", line |-> <<>>, pos |-> pos]
        ELSE IF b[i + 1] # LF THEN [st |-> "InvalidFrame", line |-> <<>>, pos |-> pos]
        ELSE [st |-> "Complete", line |-> Slice(b, pos + 1, i - 1), pos |-> i + 1]

\* an arbitrary-precision decimal: an optional sign and at least one digit
IsBigDecimal(s) ==
    LET ds == IF s # <<>> /\ Head(s) \in {"+", "-"} THEN Tail(s) ELSE s
    IN  ds # <<>> /\ \A i \in 1..Len(ds) : IsDigit(ds[i])

\* a position that leaves the CRLF of a `_` frame unread
NullEndShort(p) == p

\* the first byte after a `_` frame whose type byte ends at p
NullEnd(p) == p + 2

RECURSIVE CheckAt(_, _), CheckFrames(_, _, _)

CheckFrames(b, pos, n) ==
    IF n = 0 THEN Checked(pos)
    ELSE LET h == CheckAt(b, pos)
         IN  IF h.st # "Complete" THEN h ELSE CheckFrames(b, h.pos, n - 1)

\* a length-prefixed body of len bytes followed by CRLF, starting at pos
CheckBody(b, pos, len) ==
    IF Len(b) - pos < len + 2 THEN CheckFailed("IncompleteFrame", pos)
    ELSE IF b[pos + len + 1] # CR \/ b[pos + len + 2] # LF
    THEN CheckFailed("InvalidFrame", pos)
    ELSE Checked(pos + len + 2)

CheckAt(b, pos) ==
    IF pos >= Len(b) THEN CheckFailed("IncompleteFrame", pos)
    ELSE LET c == b[pos + 1]
             p == pos + 1
             ln == CheckLine(b, p)
             n == ParseInt(ln.line, TRUE)
         IN  CASE c = "_" ->
                    IF ~StartsWith(CRLF, Drop(b, p)) /\ ~StartsWith(Drop(b, p), CRLF)
                    THEN CheckFailed("InvalidFrame", p)
                    ELSE IF Len(b) - p < 2 THEN CheckFailed("IncompleteFrame", p)
                    ELSE Checked(NullEnd(p))
               [] c \notin {"_", "+", "-", ":", "$", "!", "*", "~", ">", "%",
                            "#", ",", "=", "("} ->
                    CheckFailed("InvalidFrame", p)
               [] OTHER ->
                    IF ln.st # "Complete" THEN CheckFailed(ln.st, ln.pos)
                    ELSE CASE c \in {"+", "-"} -> Checked(ln.pos)
                           [] c = ":" ->
                                IF n.ok THEN Checked(ln.pos)
                                ELSE CheckFailed("InvalidFrame", ln.pos)
                           [] c \in {"$", "!"} ->
                                IF ~n.ok THEN CheckFailed("InvalidFrame", ln.pos)
                                ELSE IF n.v = -1 THEN Checked(ln.pos)
                                ELSE IF n.v < 0 THEN CheckFailed("InvalidFrame", ln.pos)
                                ELSE CheckBody(b, ln.pos, n.v)
                           [] c \in {"*", "~", ">", "%"} ->
                                IF ~n.ok THEN CheckFailed("InvalidFrame", ln.pos)
                                ELSE IF n.v = -1 /\ c = "*" THEN Checked(ln.pos)
                                ELSE IF n.v < 0 THEN CheckFailed("InvalidFrame", ln.pos)
                                ELSE CheckFrames(b, ln.pos,
                                                 IF c = "%" THEN 2 * n.v ELSE n.v)
                           [] c = "#" ->
                                IF ln.line \in {<<"t">>, <<"f">>} THEN Checked(ln.pos)
                                ELSE CheckFailed("InvalidFrame", ln.pos)
                           [] c = "," ->
                                IF ParseF64(ln.line).ok THEN Checked(ln.pos)
                                ELSE CheckFailed("InvalidFrame", ln.pos)
                           [] c = "=" ->
                                IF ~n.ok \/ n.v < 4 THEN CheckFailed("InvalidFrame", ln.pos)
                                ELSE IF Len(b) - ln.pos < n.v + 2
                                THEN CheckFailed("IncompleteFrame", ln.pos)
                                ELSE IF b[ln.pos + 4] # ":"
                                THEN CheckFailed("InvalidFrame", ln.pos)
                                ELSE CheckBody(b, ln.pos, n.v)
                           [] c = "(" ->
                                IF IsBigDecimal(ln.line) THEN Checked(ln.pos)
                                ELSE CheckFailed("InvalidFrame", ln.pos)

\* Frame::check on a fresh cursor over b
Check(b) == CheckAt(b, 0)

(***************************************************************************)
(* Bounds of the model                                                     *)
(***************************************************************************)
\* frames the peer of a directly used connection sends
MaxSent == 2
\* calls made on one client, or on one directly used connection
MaxCalls == 2
\* capacity of the write buffer (BufWriter), scaled down
WCap == 24
\* longest byte string of the exhaustive parser inputs
MaxRawLen == 5

(***************************************************************************)
(* Frames on the wire.  The peer has its own serializer, so each entry     *)
(* gives the frame the peer means and the bytes it sends for it.           *)
(***************************************************************************)
PeerMenu == <<
    [frame |-> SimpleString(<<"O", "K">>), wire |-> <<"+", "O", "K", "\r", "\n">>],
    [frame |-> BulkString(<<"v">>), wire |-> <<"$", "1", "\r", "\n", "v", "\r", "\n">>],
    [frame |-> Null, wire |-> <<"_", "\r", "\n">>],
    [frame |-> Null, wire |-> <<"$", "-", "1", "\r", "\n">>],
    [frame |-> Null, wire |-> <<"*", "-", "1", "\r", "\n">>],
    [frame |-> Integer(1), wire |-> <<":", "1", "\r", "\n">>],
    [frame |-> SimpleError(<<"E">>), wire |-> <<"-", "E", "\r", "\n">>],
    [frame |-> Array(<<BulkString(<<"a">>), Integer(2)>>), wire |-> <<"*", "2", "\r", "\n", "$", "1", "\r", "\n", "a", "\r", "\n", ":", "2", "\r", "\n">>],
    [frame |-> BulkString(CRLF), wire |-> <<"$", "2", "\r", "\n", "\r", "\n", "\r", "\n">>],
    [frame |-> BigNumber(FALSE, <<"1">>), wire |-> <<"(", "1", "\r", "\n">>],
    [frame |-> Set(<<Boolean(TRUE)>>), wire |-> <<"~", "1", "\r", "\n", "#", "t", "\r", "\n">>],
    [frame |-> BulkError(<<"E", "r">>), wire |-> <<"!", "2", "\r", "\n", "E", "r", "\r", "\n">>],
    [frame |-> BulkError(<<ByteFF>>), wire |-> <<"!", "1", "\r", "\n", ByteFF, "\r", "\n">>] >>

(***************************************************************************)
(* Connection and Client state                                             *)
(***************************************************************************)
VARIABLES
    buffer,      \* Connection.buffer, the read buffer
    wbuf,        \* the bytes held by Connection.stream's BufWriter
    pending,     \* write_all: the bytes of the frame not yet accepted
    rx,          \* bytes the peer has sent that no read_buf has taken yet
    closed,      \* the peer has closed its sending side
    broken,      \* the stream has failed; every later operation on it fails
    pc,          \* where the task owning the connection is suspended
    call,        \* the facade method in progress, or "none"
    ncalls,      \* calls started so far
    wframe,      \* the frame of the current or last write_frame
    txCall,      \* bytes handed to the stream since that write_frame began
    wres,        \* how the last write_frame ended: "none", "Ok", "Err", "Panic"
    rres,        \* how the last read_frame ended
    cres,        \* how the last facade call ended
    inflight,    \* PeerMenu indices of the frames sent and not yet read, in order;
                 \* -i for a frame i of which only a part was sent
    unreturned,  \* bytes received that belong to no frame returned so far
    nsent,       \* frames the peer of a directly used connection has sent
    exp          \* the codec experiment last run

vars == <<buffer, wbuf, pending, rx, closed, broken, pc, call, ncalls, wframe,
          txCall, wres, rres, cres, inflight, unreturned, nsent, exp>>

writeVars == <<wbuf, pending, wframe, txCall, wres>>
peerVars == <<rx, closed, inflight>>

\* results of read_frame: Ok(Some(frame)), Ok(None), Err(err), or a panic.
\* expect is the PeerMenu index of the oldest frame in flight when the call
\* returned (0 if none); zero tells that a read of zero bytes ended the call;
\* took is the bytes the call split off the read buffer; afterRejected tells
\* that an earlier read_frame on the connection returned a parse error.
NoResult ==
    [st |-> "none", frame |-> NoFrame, err |-> "", expect |-> 0, zero |-> FALSE,
     took |-> <<>>, afterRejected |-> FALSE]
ReadSome(f) == [NoResult EXCEPT !.st = "Some", !.frame = f]
ReadNone == [NoResult EXCEPT !.st = "None", !.zero = TRUE]
ReadErr(e) == [NoResult EXCEPT !.st = "Err", !.err = e]
ReadPanic == [NoResult EXCEPT !.st = "Panic"]

\* the result r, or one before it, was a parse error
AfterRejected(r) == r.afterRejected \/ (r.st = "Err" /\ Rejected(r.err))

NoExp == [k |-> "none"]

(***************************************************************************)
(* Connection::try_parse_frame: check, split_to, deserialize.  The result  *)
(* carries the buffer the call leaves and the bytes it split off.          *)
(***************************************************************************)
\* the Ok arm, after split_to: d is what deserialize makes of the bytes split
\* off, rest is what split_to leaves in the buffer
Deserialized(d, bytes, rest) ==
    [res |-> IF d.st = "Complete" THEN ReadSome(d.frame)
             ELSE IF d.st = "Panic" THEN ReadPanic
             ELSE ReadErr(d.st),
     more |-> FALSE, buffer |-> rest, split |-> bytes]

\* a match on c that has no arm for IncompleteFrame: every error of check is
\* returned
MatchCheckNoArm(c, buf) ==
    IF c.st = "Complete"
    THEN Deserialized(Deserialize(Take(buf, c.pos)), Take(buf, c.pos), Drop(buf, c.pos))
    ELSE [res |-> ReadErr(c.st), more |-> FALSE, buffer |-> buf, split |-> <<>>]

\* the match on c, the result of check
MatchCheck(c, buf) ==
    IF c.st = "Complete"
    THEN Deserialized(Deserialize(Take(buf, c.pos)), Take(buf, c.pos), Drop(buf, c.pos))
    ELSE IF c.st = "IncompleteFrame"
    THEN [res |-> NoResult, more |-> TRUE, buffer |-> buf, split |-> <<>>]
    ELSE [res |-> ReadErr(c.st), more |-> FALSE, buffer |-> buf, split |-> <<>>]

TryParseFrame(buf) == MatchCheck(Check(buf), buf)

\* a read_frame that reports the end of the stream whatever the buffer holds
EofResultNone(buf) == ReadNone

\* read_frame when read_buf returned 0
EofResult(buf) ==
    IF buf = <<>> THEN ReadNone
    ELSE [ReadErr("Other") EXCEPT !.zero = TRUE]

(***************************************************************************)
(* Command constructors (src/cmd.rs) for the facade methods of the model   *)
(***************************************************************************)
\* Frame::push_frame_to_array on an Array or Set frame
PushFrameToArray(a, f) == [a EXCEPT !.v = Append(@, f)]

KeyK == <<"k">>
ValV == <<"v">>

PingCmd == PushFrameToArray(Array(<<>>), BulkString(<<"P", "I", "N", "G">>))
GetCmd(key) ==
    PushFrameToArray(PushFrameToArray(Array(<<>>), BulkString(<<"G", "E", "T">>)),
                     BulkString(key))
SetCmd(key, value) ==
    PushFrameToArray(
        PushFrameToArray(PushFrameToArray(Array(<<>>), BulkString(<<"S", "E", "T">>)),
                         BulkString(key)),
        BulkString(value))
DelCmd(key) ==
    PushFrameToArray(PushFrameToArray(Array(<<>>), BulkString(<<"D", "E", "L">>)),
                     BulkString(key))
LRangeCmd(key, start, end) ==
    PushFrameToArray(
        PushFrameToArray(
            PushFrameToArray(
                PushFrameToArray(Array(<<>>), BulkString(<<"L", "R", "A", "N", "G", "E">>)),
                BulkString(key)),
            Integer(start)),
        Integer(end))

LPopCmd(key, count) ==
    PushFrameToArray(
        PushFrameToArray(PushFrameToArray(Array(<<>>), BulkString(<<"L", "P", "O", "P">>)),
                         BulkString(key)),
        Integer(AsI64(count)))

Methods == {"ping", "get", "set", "del", "lrange", "lpop_n"}

\* the request frame each modelled call builds
Request(m) ==
    CASE m = "ping" -> PingCmd
      [] m = "get" -> GetCmd(KeyK)
      [] m = "set" -> SetCmd(KeyK, ValV)
      [] m = "del" -> DelCmd(KeyK)
      [] m = "lrange" -> LRangeCmd(KeyK, 0, -1)
      [] m = "lpop_n" -> LPopCmd(KeyK, 2)

\* push_frame_to_array for each frame of fs in turn
RECURSIVE PushAll(_, _)
PushAll(a, fs) ==
    IF fs = <<>> THEN a ELSE PushAll(PushFrameToArray(a, Head(fs)), Tail(fs))

\* one BulkString for each byte string of bs
RECURSIVE BulkStrings(_)
BulkStrings(bs) ==
    IF bs = <<>> THEN <<>> ELSE <<BulkString(Head(bs))>> \o BulkStrings(Tail(bs))

\* the frame a command value turns into (Command::into_stream, TryInto<Frame>).
\* c.cmd names the constructor and c.args holds the arguments of its new();
\* an Option is a sequence of no or one element.
IntoFrame(c) ==
    LET a == c.args
        str(x) == BulkString(x)
    IN  CASE c.cmd = "PING" ->
               PushAll(Array(<<>>), <<BulkString(<<"P", "I", "N", "G">>)>>
                                    \o BulkStrings(a[1].v))
          [] c.cmd = "HELLO" ->
               PushAll(Array(<<>>), <<BulkString(<<"H", "E", "L", "L", "O">>)>>
                   \o (IF a[1].v = <<>> THEN <<>>
                       ELSE <<BulkString(NatToString(a[1].v[1]))>>))
          [] c.cmd = "GET" ->
               PushAll(Array(<<>>), <<BulkString(<<"G", "E", "T">>), str(a[1].v)>>)
          [] c.cmd = "SET" ->
               PushAll(Array(<<>>), <<BulkString(<<"S", "E", "T">>), str(a[1].v),
                                      str(a[2].v)>>)
          [] c.cmd = "DEL" ->
               PushAll(Array(<<>>), <<BulkString(<<"D", "E", "L">>)>>
                                    \o BulkStrings(a[1].v))
          [] c.cmd = "EXISTS" ->
               PushAll(Array(<<>>), <<BulkString(<<"E", "X", "I", "S", "T", "S">>)>>
                                    \o BulkStrings(a[1].v))
          [] c.cmd = "EXPIRE" ->
               PushAll(Array(<<>>), <<BulkString(<<"E", "X", "P", "I", "R", "E">>),
                                      str(a[1].v), BulkString(IntToString(a[2].v))>>)
          [] c.cmd = "TTL" ->
               PushAll(Array(<<>>), <<BulkString(<<"T", "T", "L">>), str(a[1].v)>>)
          [] c.cmd = "INCR" ->
               PushAll(Array(<<>>), <<BulkString(<<"I", "N", "C", "R">>), str(a[1].v)>>)
          [] c.cmd = "DECR" ->
               PushAll(Array(<<>>), <<BulkString(<<"D", "E", "C", "R">>), str(a[1].v)>>)
          [] c.cmd = "LPUSH" ->
               PushAll(Array(<<>>), <<BulkString(<<"L", "P", "U", "S", "H">>), str(a[1].v)>>
                                    \o BulkStrings(a[2].v))
          [] c.cmd = "RPUSH" ->
               PushAll(Array(<<>>), <<BulkString(<<"R", "P", "U", "S", "H">>), str(a[1].v)>>
                                    \o BulkStrings(a[2].v))
          [] c.cmd = "LPOP" ->
               PushAll(Array(<<>>), <<BulkString(<<"L", "P", "O", "P">>), str(a[1].v)>>
                   \o (IF a[2].v = <<>> THEN <<>> ELSE <<Integer(AsI64(a[2].v[1]))>>))
          [] c.cmd = "RPOP" ->
               PushAll(Array(<<>>), <<BulkString(<<"R", "P", "O", "P">>), str(a[1].v)>>
                   \o (IF a[2].v = <<>> THEN <<>> ELSE <<Integer(AsI64(a[2].v[1]))>>))
          [] c.cmd = "LRANGE" ->
               PushAll(Array(<<>>), <<BulkString(<<"L", "R", "A", "N", "G", "E">>),
                                      str(a[1].v), Integer(a[2].v), Integer(a[3].v)>>)
          [] c.cmd = "GETEX" ->
               PushAll(Array(<<>>), <<BulkString(<<"G", "E", "T", "E", "X">>), str(a[1].v)>>
                   \o (IF a[2].v = <<>> THEN <<>>
                       ELSE IF a[2].v[1].unit = <<"P", "E", "R", "S", "I", "S", "T">>
                       THEN <<BulkString(a[2].v[1].unit)>>
                       ELSE <<BulkString(a[2].v[1].unit), Integer(AsI64(a[2].v[1].n))>>))

(***************************************************************************)
(* Client::read_response: the coercion of a response frame                 *)
(***************************************************************************)
Response(k, v) == [k |-> k, v |-> v]

\* an element of an Array nested in an Array response
InnerBytes(f) ==
    CASE f.t = "BulkString" -> f.v
      [] f.t = "SimpleString" -> f.v
      [] f.t = "Integer" -> IntToString(f.v)
      [] OTHER -> <<>>

RECURSIVE InnerBytesAll(_)
InnerBytesAll(fs) ==
    IF fs = <<>> THEN <<>> ELSE <<InnerBytes(Head(fs))>> \o InnerBytesAll(Tail(fs))

\* an element of an Array response
ChildBytes(f) ==
    CASE f.t = "BulkString" -> f.v
      [] f.t = "SimpleString" -> f.v
      [] f.t = "Integer" -> IntToString(f.v)
      [] f.t = "Array" -> Concat(InnerBytesAll(f.v))
      [] OTHER -> <<>>

RECURSIVE ChildBytesAll(_)
ChildBytesAll(fs) ==
    IF fs = <<>> THEN <<>> ELSE <<ChildBytes(Head(fs))>> \o ChildBytesAll(Tail(fs))

\* String::from_utf8 / str::from_utf8 accept the bytes
IsUtf8(b) == \A i \in 1..Len(b) : b[i] # ByteFF

\* the pairs of a Map response whose key and value both coerce, collected
\* into a HashMap: a later pair replaces an earlier one with the same key
RECURSIVE CollectMap(_, _)
CollectMap(pairs, acc) ==
    IF pairs = <<>> THEN acc
    ELSE LET key == Head(pairs)[1]
             value == Head(pairs)[2]
             keyOk == \/ key.t \in {"SimpleString", "Integer"}
                      \/ key.t = "BulkString" /\ IsUtf8(key.v)
             valOk == value.t \in {"BulkString", "SimpleString", "Integer"}
             k == InnerBytes(key)
         IN  IF keyOk /\ valOk
             THEN CollectMap(Tail(pairs),
                             [x \in (DOMAIN acc) \cup {k} |->
                                 IF x = k THEN InnerBytes(value) ELSE acc[x]])
             ELSE CollectMap(Tail(pairs), acc)

ReadResponseFrame(f) ==
    CASE f.t = "SimpleString" -> Response("Simple", f.v)
      [] f.t = "SimpleError" -> Response("Error", f.v)
      [] f.t = "Integer" -> Response("Simple", IntToString(f.v))
      [] f.t = "BulkString" -> Response("Simple", f.v)
      [] f.t = "Array" -> Response("Array", ChildBytesAll(f.v))
      [] f.t = "Null" -> Response("Null", <<>>)
      [] f.t = "Boolean" ->
            Response("Simple", IF f.v THEN <<"t", "r", "u", "e">> ELSE <<"f", "a", "l", "s", "e">>)
      [] f.t = "Double" ->
            Response("Simple",
                     IF f.v.k = "nan" THEN <<"N", "a", "N">>
                     ELSE IF f.v.k = "inf" /\ ~f.v.neg THEN <<"i", "n", "f">>
                     ELSE IF f.v.k = "inf" THEN <<"-", "i", "n", "f">>
                     ELSE F64ToString(f.v))
      [] f.t = "BulkError" -> Response("Error", FromUtf8Lossy(f.v))
      [] f.t = "Map" -> Response("Map", CollectMap(f.v, <<>>))
      [] OTHER -> Response("Panic", <<>>)

\* read_response on the outcome of read_frame: Ok(None) is Err(Unknown), an
\* error of read_frame propagates
ReadResponse(res) ==
    CASE res.st = "Some" -> ReadResponseFrame(res.frame)
      [] res.st = "None" -> Response("Err", "Unknown")
      [] res.st = "Err" -> Response("Err", res.err)
      [] res.st = "Panic" -> Response("Panic", <<>>)

\* results of a facade call
CallOk(kind, v) == [st |-> "Ok", kind |-> kind, err |-> "", v |-> v]
CallErr(e) == [st |-> "Err", kind |-> "", err |-> e, v |-> <<>>]
CallServerError(text) == [st |-> "Err", kind |-> "text", err |-> "Other", v |-> text]
CallPanic == [st |-> "Panic", kind |-> "", err |-> "", v |-> <<>>]
\* the future of the call was dropped while it was suspended at `at`
CallCancelled(at) == [st |-> "Cancelled", kind |-> at, err |-> "", v |-> <<>>]
\* afterFailed tells that the call before ended with a server error or with
\* UnexpectedResponseType;
\* afterNull is the PeerMenu index of the answer to the call before, if that
\* was a get that returned none on a Null answer, and 0 otherwise
NoCallResult ==
    [m |-> "none", out |-> [st |-> "none", kind |-> "", err |-> "", v |-> <<>>],
     expect |-> 0, afterNull |-> 0, afterFailed |-> FALSE]

\* the call ended with the error the server answered (SimpleError, BulkError)
\* or with UnexpectedResponseType
FailedOnResponse(c) ==
    /\ c.out.st = "Err"
    /\ \/ c.out.err = "UnexpectedResponseType"
       \/ c.out.err = "Other" /\ c.out.kind = "text"

\* the afterNull of the call that follows a call that ended as c
AfterNull(c) ==
    IF c.m = "get" /\ c.expect > 0 /\ c.out = CallOk("none", <<>>) THEN c.expect ELSE 0

\* the facade methods that return u64 and those that return i64
UnsignedMethods == {"del", "exists", "expire", "lpush", "rpush"}
SignedMethods == {"ttl", "incr", "decr"}

\* an integer reply read as the signed value and cast to the unsigned type
IntReplyCast(text, signed) ==
    LET n == ParseInt(text, TRUE)
    IN  IF ~IsUtf8(text) THEN CallErr("Utf8Error")
        ELSE IF ~n.ok THEN CallErr("ParseIntError")
        ELSE CallOk("int", IF signed THEN n.v ELSE n.v % (2 ^ IntBits))

\* from_utf8(&data)?.parse::<u64>()? and the same with i64
IntReply(text, signed) ==
    LET n == ParseInt(text, signed)
    IN  IF ~IsUtf8(text) THEN CallErr("Utf8Error")
        ELSE IF ~n.ok THEN CallErr("ParseIntError")
        ELSE CallOk("int", n.v)

\* hello on a Response::Array: the chunks of two whose first is UTF-8 text,
\* collected into a HashMap
RECURSIVE CollectChunks(_, _)
CollectChunks(data, acc) ==
    IF Len(data) < 2 THEN acc
    ELSE CollectChunks(Tail(Tail(data)),
                       IF IsUtf8(data[1])
                       THEN [x \in (DOMAIN acc) \cup {data[1]} |->
                                IF x = data[1] THEN data[2] ELSE acc[x]]
                       ELSE acc)

\* the match on the Response in each facade method
MatchResponse(m, r) ==
    CASE r.k = "Panic" -> CallPanic
      [] r.k = "Err" -> CallErr(r.v)
      [] r.k = "Error" -> CallServerError(r.v)
      [] r.k = "Simple" /\ m = "ping" -> CallOk("bytes", r.v)
      [] r.k = "Simple" /\ m \in {"get", "set"} -> CallOk("some", r.v)
      [] r.k = "Null" /\ m \in {"get", "set"} -> CallOk("none", <<>>)
      [] r.k = "Simple" /\ m \in UnsignedMethods \cup SignedMethods ->
            IntReply(r.v, m \in SignedMethods)
      [] r.k = "Array" /\ m = "hello" -> CallOk("map", CollectChunks(r.v, <<>>))
      [] r.k = "Map" /\ m = "hello" -> CallOk("map", r.v)
      [] r.k = "Array" /\ m = "lrange" -> CallOk("array", r.v)
      [] r.k = "Array" /\ m = "lpop_n" -> CallOk("some_array", r.v)
      [] r.k = "Null" /\ m = "lpop_n" -> CallOk("none", <<>>)
      [] OTHER -> CallErr("UnexpectedResponseType")

MethodResult(m, res) == MatchResponse(m, ReadResponse(res))

(***************************************************************************)
(* Init: the state after Client::connect / Connection::new                 *)
(***************************************************************************)
Init ==
    /\ buffer = <<>>
    /\ wbuf = <<>>
    /\ pending = <<>>
    /\ rx = <<>>
    /\ closed = FALSE
    /\ broken = FALSE
    /\ pc = "idle"
    /\ call = "none"
    /\ ncalls = 0
    /\ wframe = NoFrame
    /\ txCall = <<>>
    /\ wres = "none"
    /\ rres = NoResult
    /\ cres = NoCallResult
    /\ inflight = <<>>
    /\ unreturned = <<>>
    /\ nsent = 0
    /\ exp = NoExp

(***************************************************************************)
(* Connection::read_frame.  The task is suspended only inside read_buf, so *)
(* a step runs from one read_buf to the next (or to the return).           *)
(***************************************************************************)
\* read_frame returns res: to its caller, or through read_response to the
\* facade method that called it.  The frame at the head of inflight is the
\* one the call was to return; it is no longer in flight once its bytes have
\* left the buffer.
Return(res, out, expect, buf, got, split) ==
    /\ buffer' = buf
    /\ unreturned' = got
    /\ rres' = [res EXCEPT !.expect = expect, !.took = split,
                           !.afterRejected = AfterRejected(rres)]
    /\ inflight' = IF inflight = <<>> \/ split = <<>> THEN inflight
                   ELSE Tail(inflight)
    /\ pc' = IF (IF call = "none" THEN res.st ELSE out.st) = "Panic"
             THEN "panicked" ELSE "idle"
    /\ call' = "none"
    /\ cres' = IF call = "none" THEN cres
               ELSE [m |-> call, out |-> out, expect |-> expect,
                     afterNull |-> cres.afterNull,
                     afterFailed |-> cres.afterFailed]

\* a read_response that leaves an error frame in the buffer
ReturnReadKeepsError(res, buf, got, split) ==
    Return(res, MethodResult(call, res),
           IF inflight = <<>> THEN 0 ELSE Head(inflight),
           IF res.st = "Some" /\ res.frame.t \in {"SimpleError", "BulkError"}
           THEN split \o buf ELSE buf,
           got, split)

ReturnRead(res, buf, got, split) ==
    Return(res, MethodResult(call, res),
           IF inflight = <<>> THEN 0 ELSE Head(inflight), buf, got, split)

\* one turn of the loop on the buffer buf; got is what has been received and
\* not returned, buf's new bytes included
LoopOn(r, got) ==
    IF r.more
    THEN /\ pc' = "read"
         /\ buffer' = r.buffer
         /\ unreturned' = got
         /\ rres' = [NoResult EXCEPT !.afterRejected = AfterRejected(rres)]
         /\ UNCHANGED <<call, cres, inflight>>
    ELSE ReturnRead(r.res, r.buffer,
                    IF r.res.st = "Some" THEN Drop(got, Len(r.split)) ELSE got,
                    r.split)

ReadFrameLoop(buf, got) == LoopOn(TryParseFrame(buf), got)

\* a direct call of read_frame
ReadFrame ==
    /\ pc = "idle"
    /\ call = "none"
    /\ ncalls < MaxCalls
    /\ ncalls' = ncalls + 1
    /\ ReadFrameLoop(buffer, unreturned)
    /\ wres' = "none"
    /\ wframe' = NoFrame
    /\ txCall' = <<>>
    /\ UNCHANGED <<wbuf, pending, rx, closed, broken, nsent, exp>>

\* read_buf takes n >= 1 bytes from the stream, and the loop goes on
ReadBuf(n) ==
    /\ pc = "read"
    /\ ~broken
    /\ n \in 1..Len(rx)
    /\ rx' = Drop(rx, n)
    /\ ReadFrameLoop(buffer \o Take(rx, n), unreturned \o Take(rx, n))
    /\ UNCHANGED <<writeVars, closed, broken, ncalls, nsent, exp>>

\* read_buf returns 0: the peer has closed and nothing is left to read
ReadBufEof ==
    /\ pc = "read"
    /\ ~broken
    /\ closed
    /\ rx = <<>>
    /\ ReturnRead(EofResult(buffer), buffer, unreturned, <<>>)
    /\ UNCHANGED <<writeVars, rx, closed, broken, ncalls, nsent, exp>>

\* read_buf fails: the stream is broken from now on
ReadBufError ==
    /\ pc = "read"
    /\ broken' = TRUE
    /\ ReturnRead(ReadErr("Io"), buffer, unreturned, <<>>)
    /\ UNCHANGED <<writeVars, rx, closed, ncalls, nsent, exp>>

(***************************************************************************)
(* Connection::write_frame: serialize, write_all, flush.  BufWriter keeps  *)
(* a write smaller than its capacity and passes a larger one to the        *)
(* stream, which may accept any non-empty part of what it is offered.      *)
(***************************************************************************)
\* write_frame returns Ok(()): to its caller, or to the facade method, which
\* goes on to read_response
ReturnWriteOk ==
    /\ wres' = "Ok"
    /\ IF call = "none"
       THEN /\ pc' = "idle"
            /\ UNCHANGED <<buffer, unreturned, rres, call, cres, inflight>>
       ELSE ReadFrameLoop(buffer, unreturned)

\* serialize, then the start of write_all
BeginWrite(f) ==
    LET ser == Serialize(f)
    IN  /\ wframe' = f
        /\ txCall' = <<>>
        /\ rres' = [NoResult EXCEPT !.afterRejected = AfterRejected(rres)]
        /\ IF ser.st = "Ok"
           THEN /\ pending' = ser.bytes
                /\ wres' = "none"
                /\ pc' = "write_all"
           ELSE /\ pending' = <<>>
                /\ wres' = "Panic"
                /\ pc' = "panicked"

\* frames a direct caller writes
WriteMenu ==
    << PingCmd, SetCmd(KeyK, ValV), Null, BigNumber(FALSE, <<"1">>),
       SimpleString(<<"a", LF, "b">>), SimpleError(<<"e", CR>>) >>

\* a direct call of write_frame
WriteFrame(f) ==
    /\ pc = "idle"
    /\ call = "none"
    /\ ncalls < MaxCalls
    /\ ncalls' = ncalls + 1
    /\ BeginWrite(f)
    /\ UNCHANGED <<buffer, wbuf, rx, closed, broken, call, cres, inflight,
                   unreturned, nsent, exp>>

\* one poll of write_all
WriteAll(k) ==
    /\ pc = "write_all"
    /\ ~broken
    /\ IF Len(wbuf) + Len(pending) > WCap /\ wbuf # <<>>
       THEN \* the buffer is flushed first to make room
            /\ k \in 1..Len(wbuf)
            /\ wbuf' = Drop(wbuf, k)
            /\ txCall' = txCall \o Take(wbuf, k)
            /\ UNCHANGED <<pending, pc>>
       ELSE IF Len(pending) >= WCap
       THEN \* a large write goes to the stream directly
            /\ k \in 1..Len(pending)
            /\ pending' = Drop(pending, k)
            /\ txCall' = txCall \o Take(pending, k)
            /\ pc' = IF k = Len(pending) THEN "flush" ELSE "write_all"
            /\ UNCHANGED wbuf
       ELSE \* a small write is kept in the buffer
            /\ k = 1
            /\ wbuf' = wbuf \o pending
            /\ pending' = <<>>
            /\ pc' = "flush"
            /\ UNCHANGED txCall
    /\ UNCHANGED <<buffer, rx, closed, broken, call, ncalls, wframe, wres, rres,
                   cres, inflight, unreturned, nsent, exp>>

\* a flush that keeps in the buffer the bytes the stream has accepted
FlushBufKept(buf, k) == buf

\* the buffer the flush leaves after the stream has accepted k of its bytes
FlushBuf(buf, k) == Drop(buf, k)

\* one poll of flush: the stream accepts k of the buffered bytes (none are
\* left to accept when k = 0); flush returns once the buffer is empty
Flush(k) ==
    /\ pc = "flush"
    /\ ~broken
    /\ k \in (IF wbuf = <<>> THEN {0} ELSE 1..Len(wbuf))
    /\ wbuf' = FlushBuf(wbuf, k)
    /\ txCall' = txCall \o Take(wbuf, k)
    /\ IF k = Len(wbuf)
       THEN ReturnWriteOk
       ELSE UNCHANGED <<pc, wres, buffer, unreturned, rres, call, cres, inflight>>
    /\ UNCHANGED <<pending, rx, closed, broken, ncalls, wframe, nsent, exp>>

\* a facade method that goes on to read_response after write_frame failed
WriteErrorThenRead ==
    /\ pc \in {"write_all", "flush"}
    /\ broken' = TRUE
    /\ wres' = "Err"
    /\ pending' = <<>>
    /\ IF call = "none"
       THEN /\ pc' = "idle"
            /\ UNCHANGED <<buffer, unreturned, rres, call, cres, inflight>>
       ELSE ReadFrameLoop(buffer, unreturned)
    /\ UNCHANGED <<wbuf, rx, closed, ncalls, wframe, txCall, nsent, exp>>

\* write_all or flush fails: write_frame returns the error, and so does the
\* facade method, without reading
WriteError ==
    /\ pc \in {"write_all", "flush"}
    /\ broken' = TRUE
    /\ wres' = "Err"
    /\ pending' = <<>>
    /\ pc' = "idle"
    /\ call' = "none"
    /\ cres' = IF call = "none" THEN cres
               ELSE [m |-> call, out |-> CallErr("Io"), expect |-> 0,
                     afterNull |-> cres.afterNull,
                     afterFailed |-> cres.afterFailed]
    /\ UNCHANGED <<buffer, wbuf, rx, closed, ncalls, wframe, txCall, rres,
                   inflight, unreturned, nsent, exp>>

(***************************************************************************)
(* The peer of a connection used directly                                  *)
(***************************************************************************)
\* the entries of PeerMenu that the peer of a directly used connection sends
ConnMenu ==
    {i \in 1..Len(PeerMenu) :
        PeerMenu[i].frame.t \in {"SimpleString", "Null", "Array", "BigNumber"}}

PeerSend(i) ==
    /\ ~closed
    /\ nsent < MaxSent
    /\ i \in ConnMenu
    /\ rx' = rx \o PeerMenu[i].wire
    /\ inflight' = Append(inflight, i)
    /\ nsent' = nsent + 1
    /\ UNCHANGED <<buffer, writeVars, closed, broken, pc, call, ncalls, rres,
                   cres, unreturned, exp>>

\* the peer goes away in the middle of a frame: the first k bytes of the
\* frame arrive, then the end of the stream
PeerAbort(i, k) ==
    /\ ~closed
    /\ nsent < MaxSent
    /\ i \in ConnMenu
    /\ k \in 1..(Len(PeerMenu[i].wire) - 1)
    /\ rx' = rx \o Take(PeerMenu[i].wire, k)
    /\ inflight' = Append(inflight, -i)
    /\ nsent' = nsent + 1
    /\ closed' = TRUE
    /\ UNCHANGED <<buffer, writeVars, broken, pc, call, ncalls, rres, cres,
                   unreturned, exp>>

\* byte strings that are no frame and the start of none
GarbageMenu ==
    << <<"x", CR, LF>>,
       <<"+", "a", LF, "b", CR, LF>>,
       <<"$", "1", CR, LF, "v", "x", "x">>,
       <<"#", "x", CR, LF>> >>

\* the peer sends bytes that are not a frame
PeerGarbage(g) ==
    /\ ~closed
    /\ nsent < MaxSent
    /\ rx' = rx \o GarbageMenu[g]
    /\ nsent' = nsent + 1
    /\ UNCHANGED <<buffer, writeVars, closed, inflight, broken, pc, call, ncalls,
                   rres, cres, unreturned, exp>>

PeerClose ==
    /\ ~closed
    /\ closed' = TRUE
    /\ UNCHANGED <<buffer, writeVars, rx, inflight, broken, pc, call, ncalls,
                   rres, cres, unreturned, nsent, exp>>

(***************************************************************************)
(* The facade: a call writes its request, then reads one response.  The    *)
(* server answers a request once all its bytes are on the stream.          *)
(***************************************************************************)
Call(m) ==
    /\ pc = "idle"
    /\ call = "none"
    /\ ncalls < MaxCalls
    /\ m \in Methods
    /\ call' = m
    /\ ncalls' = ncalls + 1
    /\ BeginWrite(Request(m))
    /\ IF Serialize(Request(m)).st = "Ok"
       THEN cres' = [NoCallResult EXCEPT !.afterNull = AfterNull(cres),
                                        !.afterFailed = FailedOnResponse(cres)]
       ELSE cres' = [m |-> m, out |-> CallPanic, expect |-> 0,
                     afterNull |-> AfterNull(cres),
                     afterFailed |-> FailedOnResponse(cres)]
    /\ UNCHANGED <<buffer, wbuf, rx, closed, broken, inflight, unreturned, nsent,
                   exp>>

ServerReply(i) ==
    /\ call # "none"
    /\ ~closed
    /\ inflight = <<>>
    /\ txCall = Serialize(Request(call)).bytes
    /\ i \in 1..Len(PeerMenu)
    /\ rx' = rx \o PeerMenu[i].wire
    /\ inflight' = <<i>>
    /\ UNCHANGED <<buffer, writeVars, closed, broken, pc, call, ncalls, rres,
                   cres, unreturned, nsent, exp>>

ServerClose == PeerClose

\* the server goes away while it answers: the first k bytes of the answer
\* arrive, then the end of the stream
ServerAbort(i, k) ==
    /\ call # "none"
    /\ ~closed
    /\ inflight = <<>>
    /\ txCall = Serialize(Request(call)).bytes
    /\ i \in 1..Len(PeerMenu)
    /\ k \in 1..(Len(PeerMenu[i].wire) - 1)
    /\ rx' = rx \o Take(PeerMenu[i].wire, k)
    /\ inflight' = <<-i>>
    /\ closed' = TRUE
    /\ UNCHANGED <<buffer, writeVars, broken, pc, call, ncalls, rres, cres,
                   unreturned, nsent, exp>>

\* the caller drops the future of a facade call that has written its request
\* and waits in read_buf for the answer (a timeout, a select! that took
\* another branch).  The method holds the Client by &mut self: its Connection,
\* with whatever is in its buffers and on the stream, stays in the Client,
\* which can be called again.
Cancel ==
    /\ call # "none"
    /\ pc = "read"
    /\ cres' = [m |-> call, out |-> CallCancelled(pc),
                expect |-> IF inflight = <<>> THEN 0 ELSE Head(inflight),
                afterNull |-> cres.afterNull, afterFailed |-> cres.afterFailed]
    /\ call' = "none"
    /\ pc' = "idle"
    /\ UNCHANGED <<buffer, writeVars, peerVars, broken, ncalls, rres, unreturned,
                   nsent, exp>>

(***************************************************************************)
(* Specifications                                                          *)
(***************************************************************************)
\* the read side of a connection used directly, against a peer that sends
\* frames at will
NextRead ==
    \/ ReadFrame
    \/ \E n \in 1..Len(rx) : ReadBuf(n)
    \/ ReadBufEof
    \/ ReadBufError
    \/ \E i \in ConnMenu : PeerSend(i)
    \/ \E i \in ConnMenu : \E k \in 1..Len(PeerMenu[i].wire) : PeerAbort(i, k)
    \/ PeerClose

SpecRead == Init /\ [][NextRead]_vars

\* the read side under the scheduling of the runtime: the task suspended in
\* read_buf is woken and polled once the socket is readable, that is when
\* bytes have arrived or the peer has closed (a stream that has failed is
\* readable and fails again).  TakeBytes is the step of ReadBuf as the stream
\* sees it: it is enabled when ReadBuf is, and the steps of NextRead that
\* satisfy it are those of ReadBuf.
TakeBytes == pc = "read" /\ ~broken /\ \E n \in 1..Len(rx) : rx' = Drop(rx, n)

SpecReadFair ==
    /\ SpecRead
    /\ WF_rx(TakeBytes)
    /\ WF_vars(ReadBufEof)
    /\ WF_vars(broken /\ ReadBufError)

\* the read side with a peer that may also send bytes that are no frame
NextGarbage ==
    \/ NextRead
    \/ \E g \in 1..Len(GarbageMenu) : PeerGarbage(g)

SpecGarbage == Init /\ [][NextGarbage]_vars

\* the largest read buffer the specification allows, scaled down from
\* 512 MiB: no shorter than all the frames that the peer of NextRead sends
MaxBufferLen == 32

\* the peer sends one more byte of a simple string whose CRLF never comes:
\* `+` when nothing received is waiting to be parsed, and then `a` for as
\* long as what is waiting is such a line
PeerStall ==
    LET waiting == buffer \o rx
    IN  /\ ~closed
        /\ Len(waiting) <= MaxBufferLen
        /\ IF waiting = <<>> THEN TRUE
           ELSE waiting[1] = "+" /\ \A i \in 1..Len(waiting) : waiting[i] \notin {CR, LF}
        /\ rx' = rx \o (IF waiting = <<>> THEN <<"+">> ELSE <<"a">>)
        /\ UNCHANGED <<buffer, writeVars, closed, inflight, broken, pc, call, ncalls,
                       rres, cres, unreturned, nsent, exp>>

\* the read side with a peer that stalls in the middle of a frame
NextStall ==
    \/ ReadFrame
    \/ \E n \in 1..Len(rx) : ReadBuf(n)
    \/ ReadBufEof
    \/ ReadBufError
    \/ PeerStall
    \/ PeerClose

SpecStall == Init /\ [][NextStall]_vars

\* the write side of a connection used directly
NextWrite ==
    \/ \E i \in 1..Len(WriteMenu) : WriteFrame(WriteMenu[i])
    \/ \E k \in 1..(Len(wbuf) + Len(pending)) : WriteAll(k)
    \/ \E k \in 0..Len(wbuf) : Flush(k)
    \/ WriteError

SpecWrite == Init /\ [][NextWrite]_vars

\* a client, against a server that answers each request once, in order
Next ==
    \/ \E m \in Methods : Call(m)
    \/ \E k \in 1..(Len(wbuf) + Len(pending)) : WriteAll(k)
    \/ \E k \in 0..Len(wbuf) : Flush(k)
    \/ WriteError
    \/ \E i \in 1..Len(PeerMenu) : ServerReply(i)
    \/ ServerClose
    \/ \E i \in 1..Len(PeerMenu) : \E k \in 1..Len(PeerMenu[i].wire) : ServerAbort(i, k)
    \/ \E n \in 1..Len(rx) : ReadBuf(n)
    \/ ReadBufEof
    \/ ReadBufError

Spec == Init /\ [][Next]_vars

\* a client whose callers may also drop a call in progress
NextCancel ==
    \/ Next
    \/ Cancel

SpecCancel == Init /\ [][NextCancel]_vars

(***************************************************************************)
(* The codec on its own: one experiment in each behaviour, serialize and    *)
(* try_parse applied to a chosen frame or to a short byte string over      *)
(* Alphabet.                                                               *)
(***************************************************************************)
\* constructible frames: every variant, nested aggregates included
CodecFrames ==
    << SimpleString(<<"O", "K">>),
       SimpleError(<<"E">>),
       Integer(-1),
       Integer(I64Max),
       BulkString(<<"v">>),
       BulkString(<<>>),
       BulkString(CRLF),
       Array(<<>>),
       Array(<<BulkString(<<"a">>), Integer(2)>>),
       Array(<<Array(<<Null>>), SimpleString(<<"s">>)>>),
       Null,
       Boolean(TRUE),
       Boolean(FALSE),
       Double(Finite(FALSE, 1, <<"5">>)),
       Double(Finite(TRUE, 2, <<>>)),
       Double(NaN),
       Double(Infinity),
       Double(NegInfinity),
       BigNumber(FALSE, <<"1">>),
       BulkError(<<"E">>),
       VerbatimString(<<"t", "x", "t">>, <<"h", "i">>),
       Map(<<<<SimpleString(<<"k">>), Integer(1)>>>>),
       Map(<<<<BulkString(<<"k">>), Array(<<Boolean(TRUE)>>)>>>>),
       Attribute,
       Set(<<Integer(1), Null>>),
       Push >>

\* the indices of the frames that serialize
Serializable == {i \in 1..Len(CodecFrames) : Serialize(CodecFrames[i]).st = "Ok"}

Alphabet == {"_", "$", "*", "-", "1", CR, LF}

RawInputs == UNION {[1..n -> Alphabet] : n \in 0..MaxRawLen}

\* inputs that start with the type bytes of BigNumber, Push and Attribute
MarkedInputs ==
    { <<"(", "1", CR, LF>>,
      <<">", "1", CR, LF, "_", CR, LF>>,
      <<">", "0", CR, LF>>,
      <<"&", "0", CR, LF>> }

\* the payloads of the length-prefixed inputs: line breaks included
MaxPayloadLen == 3

Payloads == UNION {[1..n -> {"a", CR, LF}] : n \in 0..MaxPayloadLen}

\* a type byte, the decimal text of n, CRLF, and the bytes that follow
LengthPrefixed(tag, n, rest) == <<tag>> \o IntToString(n) \o CRLF \o rest

\* `$L\r\n<payload>\r\n` for every payload, L its length
BulkInputs == {LengthPrefixed("$", Len(p), p \o CRLF) : p \in Payloads}

\* two bytes that are not CRLF
BadEnds == {<<"a", "a">>, <<CR, "a">>, <<"a", LF>>, <<LF, CR>>}

\* `$` and `!` inputs with all their L + 2 bytes, the last two not CRLF
BadEndInputs ==
    {LengthPrefixed(tag, Len(p), p \o t) :
        tag \in {"$", "!"}, p \in Payloads, t \in BadEnds}

\* the length-prefixed kinds with a negative length or count that is not
\* the null sentinel of `$` and `*`
NegativeInputs ==
    {LengthPrefixed(tag, n, <<>>) :
        tag \in {"$", "!", "=", "*", "~", "%"}, n \in {-2, -3, I64Min}}
    \cup {LengthPrefixed(tag, -1, <<>>) : tag \in {"!", "=", "~", "%"}}

\* the texts put between `:` and CRLF: the short ones over signs, digits, a
\* letter and the line-break bytes, and the decimal texts around the ends of
\* the signed range
MaxTextLen == 3

IntegerTexts ==
    UNION {[1..n -> {"+", "-", "0", "7", "a", CR, LF}] : n \in 0..MaxTextLen}
    \cup {IntToString(n) : n \in {I64Max - 1, I64Max, I64Max + 1, USizeMax,
                                   USizeMax + 1, I64Min + 1, I64Min, I64Min - 1}}
    \cup {<<"+">> \o IntToString(I64Max), <<"0">> \o IntToString(I64Max),
          <<"-", "0">> \o IntToString(I64Max + 1)}

IntegerInputs == {<<":">> \o t \o CRLF : t \in IntegerTexts}

\* `=L\r\n<body>\r\n` for every body of up to MaxBodyLen bytes, L its
\* length, the colon at any place or at none
MaxBodyLen == 5

VerbatimBodies == UNION {[1..n -> {"t", ":"}] : n \in 0..MaxBodyLen}

VerbatimInputs == {LengthPrefixed("=", Len(p), p \o CRLF) : p \in VerbatimBodies}

\* `+` and `-` lines ended by CRLF, line-break bytes in the text or not
SimpleInputs == {<<tag>> \o p \o CRLF : tag \in {"+", "-"}, p \in Payloads}

\* every byte string try_parse is tried on
ParseInputs ==
    RawInputs \cup MarkedInputs \cup BulkInputs \cup BadEndInputs
        \cup NegativeInputs \cup IntegerInputs \cup VerbatimInputs
        \cup SimpleInputs

\* VerbatimString values: the encoding is a Bytes of any length
MaxEncLen == 4

VerbatimFrames ==
    {VerbatimString(e, b) :
        e \in UNION {[1..n -> {"t"}] : n \in 0..MaxEncLen},
        b \in {<<>>, <<"h", "i">>, <<":">>, CRLF}}

\* command values: the constructor, the upper-case name of the command, and
\* the arguments given to new() in their order.  An argument is a byte string
\* ("bytes"), a list of byte strings ("list"), an integer ("int") or an Option
\* of a byte string, an integer or an Expiry ("opt_bytes", "opt_int",
\* "opt_expiry").
CmdCalls ==
    << [cmd |-> "PING", name |-> <<"P", "I", "N", "G">>,
        args |-> <<[k |-> "opt_bytes", v |-> <<>>]>>],
       [cmd |-> "PING", name |-> <<"P", "I", "N", "G">>,
        args |-> <<[k |-> "opt_bytes", v |-> <<<<"h", "i">>>>]>>],
       [cmd |-> "HELLO", name |-> <<"H", "E", "L", "L", "O">>,
        args |-> <<[k |-> "opt_int", v |-> <<>>]>>],
       [cmd |-> "HELLO", name |-> <<"H", "E", "L", "L", "O">>,
        args |-> <<[k |-> "opt_int", v |-> <<3>>]>>],
       [cmd |-> "GET", name |-> <<"G", "E", "T">>,
        args |-> <<[k |-> "bytes", v |-> KeyK]>>],
       [cmd |-> "SET", name |-> <<"S", "E", "T">>,
        args |-> <<[k |-> "bytes", v |-> KeyK], [k |-> "bytes", v |-> ValV]>>],
       [cmd |-> "DEL", name |-> <<"D", "E", "L">>,
        args |-> <<[k |-> "list", v |-> <<KeyK, ValV>>]>>],
       [cmd |-> "EXISTS", name |-> <<"E", "X", "I", "S", "T", "S">>,
        args |-> <<[k |-> "list", v |-> <<KeyK>>]>>],
       [cmd |-> "EXPIRE", name |-> <<"E", "X", "P", "I", "R", "E">>,
        args |-> <<[k |-> "bytes", v |-> KeyK], [k |-> "int", v |-> 60]>>],
       [cmd |-> "EXPIRE", name |-> <<"E", "X", "P", "I", "R", "E">>,
        args |-> <<[k |-> "bytes", v |-> KeyK], [k |-> "int", v |-> -1]>>],
       [cmd |-> "TTL", name |-> <<"T", "T", "L">>,
        args |-> <<[k |-> "bytes", v |-> KeyK]>>],
       [cmd |-> "INCR", name |-> <<"I", "N", "C", "R">>,
        args |-> <<[k |-> "bytes", v |-> KeyK]>>],
       [cmd |-> "DECR", name |-> <<"D", "E", "C", "R">>,
        args |-> <<[k |-> "bytes", v |-> KeyK]>>],
       [cmd |-> "LPUSH", name |-> <<"L", "P", "U", "S", "H">>,
        args |-> <<[k |-> "bytes", v |-> KeyK], [k |-> "list", v |-> <<ValV, KeyK>>]>>],
       [cmd |-> "RPUSH", name |-> <<"R", "P", "U", "S", "H">>,
        args |-> <<[k |-> "bytes", v |-> KeyK], [k |-> "list", v |-> <<ValV>>]>>],
       [cmd |-> "LPOP", name |-> <<"L", "P", "O", "P">>,
        args |-> <<[k |-> "bytes", v |-> KeyK], [k |-> "opt_int", v |-> <<>>]>>],
       [cmd |-> "LPOP", name |-> <<"L", "P", "O", "P">>,
        args |-> <<[k |-> "bytes", v |-> KeyK], [k |-> "opt_int", v |-> <<2>>]>>],
       [cmd |-> "LPOP", name |-> <<"L", "P", "O", "P">>,
        args |-> <<[k |-> "bytes", v |-> KeyK], [k |-> "opt_int", v |-> <<I64Max + 1>>]>>],
       [cmd |-> "RPOP", name |-> <<"R", "P", "O", "P">>,
        args |-> <<[k |-> "bytes", v |-> KeyK], [k |-> "opt_int", v |-> <<>>]>>],
       [cmd |-> "RPOP", name |-> <<"R", "P", "O", "P">>,
        args |-> <<[k |-> "bytes", v |-> KeyK], [k |-> "opt_int", v |-> <<USizeMax>>]>>],
       [cmd |-> "LRANGE", name |-> <<"L", "R", "A", "N", "G", "E">>,
        args |-> <<[k |-> "bytes", v |-> KeyK], [k |-> "int", v |-> 0],
                   [k |-> "int", v |-> -1]>>],
       [cmd |-> "GETEX", name |-> <<"G", "E", "T", "E", "X">>,
        args |-> <<[k |-> "bytes", v |-> KeyK], [k |-> "opt_expiry", v |-> <<>>]>>],
       [cmd |-> "GETEX", name |-> <<"G", "E", "T", "E", "X">>,
        args |-> <<[k |-> "bytes", v |-> KeyK],
                   [k |-> "opt_expiry", v |-> <<[unit |-> <<"E", "X">>, n |-> 60]>>]>>],
       [cmd |-> "GETEX", name |-> <<"G", "E", "T", "E", "X">>,
        args |-> <<[k |-> "bytes", v |-> KeyK],
                   [k |-> "opt_expiry",
                    v |-> <<[unit |-> <<"P", "E", "R", "S", "I", "S", "T">>, n |-> 0]>>]>>] >>

\* no parse was made
NoParse == [st |-> "none", frame |-> NoFrame, pos |-> 0]

\* parse(serialize(F))
RoundTrip(i) ==
    LET ser == Serialize(CodecFrames[i])
    IN  /\ exp = NoExp
        /\ exp' = [k |-> "RoundTrip", i |-> i, ser |-> ser,
                   back |-> IF ser.st = "Ok" THEN Deserialize(ser.bytes) ELSE NoParse]
        /\ UNCHANGED <<buffer, writeVars, peerVars, broken, pc, call, ncalls, rres,
                       cres, unreturned, nsent>>

\* try_parse on the first n bytes of serialize(F)
Prefix(i, n) ==
    LET bytes == Serialize(CodecFrames[i]).bytes
    IN  /\ exp = NoExp
        /\ i \in Serializable
        /\ n \in 0..Len(bytes)
        /\ exp' = [k |-> "Prefix", i |-> i, cut |-> n, len |-> Len(bytes),
                   res |-> TryParse(Take(bytes, n))]
        /\ UNCHANGED <<buffer, writeVars, peerVars, broken, pc, call, ncalls, rres,
                       cres, unreturned, nsent>>

\* try_parse on serialize(F1) followed by serialize(F2), then on what the
\* first parse left
Concatenation(i, j) ==
    LET b1 == Serialize(CodecFrames[i]).bytes
        b2 == Serialize(CodecFrames[j]).bytes
        first == TryParse(b1 \o b2)
    IN  /\ exp = NoExp
        /\ i \in Serializable
        /\ j \in Serializable
        /\ exp' = [k |-> "Concatenation", i |-> i, j |-> j, len1 |-> Len(b1),
                   first |-> first,
                   second |-> IF first.st = "Complete"
                              THEN TryParse(Drop(b1 \o b2, first.pos))
                              ELSE NoParse]
        /\ UNCHANGED <<buffer, writeVars, peerVars, broken, pc, call, ncalls, rres,
                       cres, unreturned, nsent>>

\* try_parse on the byte string b, then serialize of the frame parsed
ParseBytes(b) ==
    LET res == TryParse(b)
    IN  /\ exp = NoExp
        /\ exp' = [k |-> "ParseBytes", bytes |-> b, res |-> res,
                   ser |-> IF res.st = "Complete" THEN Serialize(res.frame)
                           ELSE SerPanic]
        /\ UNCHANGED <<buffer, writeVars, peerVars, broken, pc, call, ncalls, rres,
                       cres, unreturned, nsent>>

\* serialize on the frame f
SerializeFrame(f) ==
    /\ exp = NoExp
    /\ exp' = [k |-> "Serialize", frame |-> f, ser |-> Serialize(f)]
    /\ UNCHANGED <<buffer, writeVars, peerVars, broken, pc, call, ncalls, rres,
                   cres, unreturned, nsent>>

\* Connection::try_parse_frame with b in the read buffer
ParseAttempt(b) ==
    /\ exp = NoExp
    /\ exp' = [k |-> "TryParseFrame", buf |-> b, out |-> TryParseFrame(b)]
    /\ UNCHANGED <<buffer, writeVars, peerVars, broken, pc, call, ncalls, rres,
                   cres, unreturned, nsent>>

\* answers of the server to a facade call, as the frames read_frame returns
AnswerFrames ==
    << Array(<<BulkString(<<"c">>), BulkString(<<"b">>), BulkString(<<"a">>)>>),
       Array(<<SimpleString(<<"O", "K">>), Integer(-2), BulkString(<<>>)>>),
       Array(<<Array(<<BulkString(<<"a">>), Integer(12)>>), BulkString(<<"z">>)>>),
       Array(<<Boolean(TRUE), BulkString(<<"a">>)>>),
       Array(<<BulkString(<<"a">>), Double(Finite(FALSE, 1, <<"5">>))>>),
       Array(<<>>),
       Map(<<<<BulkString(<<"k">>), BulkString(<<"v">>)>>,
             <<SimpleString(<<"n">>), Integer(3)>>>>),
       Map(<<<<BulkString(<<"k">>), BulkString(<<"v">>)>>,
             <<BulkString(<<ByteFF>>), BulkString(<<"w">>)>>>>),
       Map(<<<<SimpleString(<<"m">>), Array(<<BulkString(<<"a">>)>>)>>,
             <<BulkString(<<"k">>), BulkString(<<"v">>)>>>>),
       Map(<<<<Null, BulkString(<<"v">>)>>>>),
       Map(<<>>),
       Integer(0), Integer(1), Integer(-2), Integer(-1),
       Integer(I64Max), Integer(I64Min),
       BulkString(<<"1", "2">>), BulkString(<<"-", "7">>), BulkString(<<"a", "b">>),
       BulkString(<<>>), BulkString(<<"1", ByteFF>>),
       BulkString(IntToString(USizeMax)), BulkString(IntToString(USizeMax + 1)),
       BulkString(IntToString(I64Max + 1)), BulkString(IntToString(I64Min - 1)),
       SimpleString(<<"O", "K">>), SimpleString(<<"4", "2">>),
       Boolean(TRUE), Double(Finite(FALSE, 1, <<"5">>)), Double(Finite(FALSE, 2, <<>>)),
       Null, SimpleError(<<"E">>) >>

\* the facade method m reads the answer AnswerFrames[i]
Answer(m, i) ==
    /\ exp = NoExp
    /\ exp' = [k |-> "Answer", m |-> m, frame |-> AnswerFrames[i],
               out |-> MethodResult(m, ReadSome(AnswerFrames[i]))]
    /\ UNCHANGED <<buffer, writeVars, peerVars, broken, pc, call, ncalls, rres,
                   cres, unreturned, nsent>>

\* a command value is turned into its frame
Build(i) ==
    /\ exp = NoExp
    /\ exp' = [k |-> "Build", i |-> i, frame |-> IntoFrame(CmdCalls[i])]
    /\ UNCHANGED <<buffer, writeVars, peerVars, broken, pc, call, ncalls, rres,
                   cres, unreturned, nsent>>

NextCodec ==
    \/ exp = NoExp /\ \E i \in 1..Len(CodecFrames) : RoundTrip(i)
    \/ exp = NoExp /\ \E i \in Serializable :
          \E n \in 0..Len(Serialize(CodecFrames[i]).bytes) : Prefix(i, n)
    \/ exp = NoExp /\ \E i, j \in Serializable : Concatenation(i, j)
    \/ exp = NoExp /\ \E b \in ParseInputs : ParseBytes(b)
    \/ exp = NoExp /\ \E i \in 1..Len(CmdCalls) : Build(i)
    \/ exp = NoExp /\ \E f \in VerbatimFrames : SerializeFrame(f)
    \/ exp = NoExp /\ \E b \in ParseInputs : ParseAttempt(b)
    \/ exp = NoExp /\ \E m \in Methods \cup {"hello"} \cup UnsignedMethods \cup SignedMethods :
          \E i \in 1..Len(AnswerFrames) : Answer(m, i)

SpecCodec == Init /\ [][NextCodec]_vars

(***************************************************************************)
(* Claims on the connection and the facade                                 *)
(***************************************************************************)
\* C1: whatever frames the peer sends back to back and however the stream is
\* cut into reads, each read_frame returns the next frame sent, in order, and
\* end-of-stream once all are returned and the peer has closed; no call ends
\* in an error unless the stream failed or the peer left in mid-frame.
C1_FramesInOrder ==
    (rres.st # "none" /\ ~broken /\ rres.expect >= 0) =>
        IF rres.expect = 0 THEN rres.st = "None"
        ELSE /\ rres.st = "Some"
             /\ rres.frame.t = PeerMenu[rres.expect].frame.t
             /\ rres.frame = PeerMenu[rres.expect].frame

\* C2: on a stream that has not failed, a facade call made after the earlier
\* ones have returned, and answered by the server, returns the coercion of the
\* frame the server answered it with.
C2_CallReturnsCoercion ==
    (cres.m # "none" /\ cres.expect > 0 /\ ~broken) =>
        cres.out = MethodResult(cres.m, ReadSome(PeerMenu[cres.expect].frame))

\* C8: the read buffer holds exactly the bytes received that belong to no
\* frame returned so far.
C8_BufferIsUnreturned == pc # "panicked" => buffer = unreturned

C10_WriteFlushed ==
    wres = "Ok" =>
        /\ wbuf = <<>>
        /\ pending = <<>>
        /\ txCall = Serialize(wframe).bytes

\* C10 witness: a write_frame of a frame larger than the write buffer returned Ok
C10_Witness == wres = "Ok" /\ Len(txCall) > WCap

\* C11: write_frame is all-or-error: once a write_frame call has ended, either
\* it returned Ok and every byte of the frame is on the stream, or it returned
\* an error; this for every frame and every point of failure (serialize,
\* write_all, flush).
C11_AllOrError ==
    wres # "none" =>
        \/ /\ wres = "Ok"
           /\ txCall = Serialize(wframe).bytes
           /\ wbuf = <<>>
        \/ wres = "Err"

\* C12: the Incomplete signal never leaves the read loop: whatever the server
\* sends and however the stream is cut or ended, no read_frame returns the
\* error IncompleteFrame, and no facade call fails with it.
C12_IncompleteStaysInside ==
    /\ rres.st = "Err" => rres.err # "IncompleteFrame"
    /\ cres.out.st = "Err" => cres.out.err # "IncompleteFrame"

\* C12 witness: the server left in the middle of its answer; the call ended
\* with an incomplete frame in the buffer, and with an error
C12_Witness ==
    /\ cres.m # "none"
    /\ cres.out.st = "Err"
    /\ rres.st = "Err"
    /\ buffer # <<>>
    /\ Check(buffer).st = "IncompleteFrame"

\* C13: a facade call that the server answers with SimpleError(t) or
\* BulkError(t) fails, and the message of its error is t, byte for byte.
C13_ServerErrorVerbatim ==
    (/\ cres.m # "none"
     /\ cres.expect > 0
     /\ ~broken
     /\ PeerMenu[cres.expect].frame.t \in {"SimpleError", "BulkError"}) =>
        /\ cres.out.st = "Err"
        /\ cres.out.kind = "text"
        /\ cres.out.v = PeerMenu[cres.expect].frame.v

\* C14: a facade call that the server answers with a well-formed frame of a
\* shape the method does not accept (a Set, VerbatimString, BigNumber or Push
\* for any method, an Array for get) returns the error UnexpectedResponseType:
\* it does not panic and returns no success value.
C14_UnexpectedResponseType ==
    (/\ cres.m # "none"
     /\ cres.expect > 0
     /\ ~broken
     /\ \/ PeerMenu[cres.expect].frame.t \in {"Set", "VerbatimString", "BigNumber", "Push"}
        \/ cres.m = "get" /\ PeerMenu[cres.expect].frame.t = "Array") =>
        cres.out = CallErr("UnexpectedResponseType")

\* C16: serialize of a SimpleString or SimpleError whose payload holds a CR or
\* an LF returns an error and no bytes, and a write_frame of such a frame puts
\* nothing on the stream or in the write buffer and does not return Ok.
C16_LineBreakRejected ==
    (/\ wframe.t \in {"SimpleString", "SimpleError"}
     /\ \E i \in 1..Len(wframe.v) : wframe.v[i] \in {CR, LF}) =>
        /\ Serialize(wframe).st # "Ok"
        /\ Serialize(wframe).bytes = <<>>
        /\ pending = <<>>
        /\ wbuf = <<>>
        /\ txCall = <<>>
        /\ wres # "Ok"

\* C17: a get that the server answers with `_\r\n` or with `$-1\r\n` returns
\* none and leaves nothing in the read buffer, and the connection stays usable:
\* the read_frame of the next call on the same Client takes off the stream
\* exactly the bytes of the answer to that call, and a frame it returns is the
\* frame of that answer.
C17_NullThenNext ==
    /\ (/\ cres.m = "get"
        /\ cres.expect > 0
        /\ ~broken
        /\ PeerMenu[cres.expect].wire \in {<<"_", CR, LF>>, <<"$", "-", "1", CR, LF>>}) =>
           /\ cres.out = CallOk("none", <<>>)
           /\ buffer = <<>>
    /\ (cres.m # "none" /\ cres.afterNull > 0 /\ cres.expect > 0 /\ ~broken) =>
           /\ rres.took = PeerMenu[cres.expect].wire
           /\ rres.st = "Some" =>
                 /\ rres.frame.t = PeerMenu[cres.expect].frame.t
                 /\ rres.frame = PeerMenu[cres.expect].frame

\* C17 witness: a get answered with `_\r\n` returned none, and the ping that
\* followed it returned its own answer
C17_Witness ==
    /\ cres.m = "ping"
    /\ cres.afterNull > 0
    /\ PeerMenu[cres.afterNull].wire = <<"_", CR, LF>>
    /\ cres.expect = 1
    /\ cres.out = CallOk("bytes", <<"O", "K">>)

\* C18: once a facade call has been cancelled after its write_frame completed
\* and before its read_frame returned, no later facade call is made on that
\* connection.
C18_DroppedOnCancel ==
    [][(cres.out.st = "Cancelled" /\ cres.out.kind = "read") => call' = "none"]_vars

\* C19: once a facade call has failed because its connection observed
\* InvalidFrame or the end of the stream where an answer was due, the Client
\* starts no further call (no write_frame, no read_frame) on that connection.
C19_NoReuseAfterFailure ==
    [][(/\ cres.out.st = "Err"
        /\ cres.out.err = "InvalidFrame" \/ rres.zero) => call' = "none"]_vars

\* C30: once a read_frame has returned an error because the bytes in the
\* buffer were rejected by the parse, every later read_frame on the same
\* connection returns an error as well: the connection does not pass over
\* the offending bytes and deliver frames again.
C30_RejectedIsFatal ==
    (rres.afterRejected /\ rres.st # "none") => rres.st = "Err"

(***************************************************************************)
(* Claims on the codec                                                     *)
(***************************************************************************)
\* the three encodings of Null
NullForms == {<<"_", "\r", "\n">>, <<"$", "-", "1", "\r", "\n">>, <<"*", "-", "1", "\r", "\n">>}

\* C3: for every constructible frame F, serialize(F) succeeds and
\* parse(serialize(F)) is Complete with a frame equal to F.
C3_RoundTrip ==
    exp.k = "RoundTrip" =>
        /\ exp.ser.st = "Ok"
        /\ exp.back.st = "Complete"
        /\ exp.back.frame.t = CodecFrames[exp.i].t
        /\ exp.back.frame = CodecFrames[exp.i]

\* C4: try_parse on a proper prefix of serialize(F) is IncompleteFrame, and on
\* the whole of it is Complete.
C4_PrefixStability ==
    exp.k = "Prefix" =>
        IF exp.cut < exp.len THEN exp.res.st = "IncompleteFrame"
        ELSE exp.res.st = "Complete"

\* C5: try_parse on serialize(F1) followed by serialize(F2) returns F1 with the
\* cursor at the length of serialize(F1), and try_parse on the rest returns F2.
C5_Concatenation ==
    exp.k = "Concatenation" =>
        /\ exp.first.st = "Complete"
        /\ exp.first.frame.t = CodecFrames[exp.i].t
        /\ exp.first.frame = CodecFrames[exp.i]
        /\ exp.first.pos = exp.len1
        /\ exp.second.st = "Complete"
        /\ exp.second.frame.t = CodecFrames[exp.j].t
        /\ exp.second.frame = CodecFrames[exp.j]

\* C6: each of the three encodings of Null parses to Complete(Null) with the
\* cursor at the end of the bytes.
C6_NullForms ==
    (exp.k = "ParseBytes" /\ exp.bytes \in NullForms) =>
        /\ exp.res.st = "Complete"
        /\ exp.res.frame.t = "Null"
        /\ exp.res.pos = Len(exp.bytes)

\* C7: whenever try_parse returns Complete(F), the cursor is at the length of
\* serialize(F).
C7_LengthHonesty ==
    (exp.k = "ParseBytes" /\ exp.res.st = "Complete") =>
        /\ exp.ser.st = "Ok"
        /\ exp.res.pos = Len(exp.ser.bytes)

\* C15: the parser is total: on every byte string, those that start with `(`,
\* `>` or `&` included, try_parse ends as Complete, IncompleteFrame or
\* InvalidFrame and never aborts; an input that starts with `>` is taken as the
\* same input with `*` in its place is (same outcome, same cursor).
C15_ParserTotal ==
    exp.k = "ParseBytes" =>
        /\ exp.res.st \in {"Complete", "IncompleteFrame", "InvalidFrame"}
        /\ (exp.bytes # <<>> /\ exp.bytes[1] = ">") =>
              /\ exp.res.st = TryParse(<<"*">> \o Tail(exp.bytes)).st
              /\ exp.res.pos = TryParse(<<"*">> \o Tail(exp.bytes)).pos

\* what the arguments args are to put in the frame, in order: a byte string
\* or an integer for each argument given, nothing for an absent Option, the
\* keyword and then the time for an Expiry
RECURSIVE WantedElements(_)
WantedElements(args) ==
    IF args = <<>> THEN <<>>
    ELSE LET a == Head(args)
             bytes(x) == [ty |-> "bytes", v |-> x]
             int(x) == [ty |-> "int", v |-> x]
         IN  (CASE a.k = "bytes" -> <<bytes(a.v)>>
                [] a.k = "list" -> [j \in 1..Len(a.v) |-> bytes(a.v[j])]
                [] a.k = "int" -> <<int(a.v)>>
                [] a.k = "opt_bytes" -> [j \in 1..Len(a.v) |-> bytes(a.v[j])]
                [] a.k = "opt_int" -> [j \in 1..Len(a.v) |-> int(a.v[j])]
                [] a.k = "opt_expiry" ->
                     IF a.v = <<>> THEN <<>>
                     ELSE IF a.v[1].unit = <<"P", "E", "R", "S", "I", "S", "T">>
                     THEN <<bytes(a.v[1].unit)>>
                     ELSE <<bytes(a.v[1].unit), int(a.v[1].n)>>)
             \o WantedElements(Tail(args))

\* the element e holds w: a BulkString of the bytes, or for an integer the
\* Integer of its value or a BulkString of its decimal text
ElementHolds(e, w) ==
    IF w.ty = "bytes" THEN e.t = "BulkString" /\ e.v = w.v
    ELSE \/ e.t = "Integer" /\ e.v = w.v
         \/ e.t = "BulkString" /\ e.v = IntToString(w.v)

\* C20: every command constructor yields an Array whose first element is the
\* BulkString of the upper-case command name, followed by one BulkString or
\* Integer element for each argument, in the order given and holding the
\* argument; an absent optional argument adds no element.
C20_CommandFrames ==
    exp.k = "Build" =>
        /\ exp.frame.t = "Array"
        /\ Len(exp.frame.v) = 1 + Len(WantedElements(CmdCalls[exp.i].args))
        /\ exp.frame.v[1].t = "BulkString"
        /\ exp.frame.v[1].v = CmdCalls[exp.i].name
        /\ \A j \in 1..Len(WantedElements(CmdCalls[exp.i].args)) :
              ElementHolds(exp.frame.v[j + 1], WantedElements(CmdCalls[exp.i].args)[j])

\* the type byte of the wire layout of each kind of frame
TypeByte(f) ==
    CASE f.t = "SimpleString" -> "+"
      [] f.t = "SimpleError" -> "-"
      [] f.t = "Integer" -> ":"
      [] f.t = "BulkString" -> "$"
      [] f.t = "Array" -> "*"
      [] f.t = "Null" -> "_"
      [] f.t = "Boolean" -> "#"
      [] f.t = "Double" -> ","
      [] f.t = "BigNumber" -> "("
      [] f.t = "BulkError" -> "!"
      [] f.t = "VerbatimString" -> "="
      [] f.t = "Map" -> "%"
      [] f.t = "Attribute" -> "&"
      [] f.t = "Set" -> "~"
      [] f.t = "Push" -> ">"

\* the index of the CR of the first CRLF of b after position pos, or 0
FirstCRLF(b, pos) ==
    IF \E i \in (pos + 1)..(Len(b) - 1) : b[i] = CR /\ b[i + 1] = LF
    THEN CHOOSE i \in (pos + 1)..(Len(b) - 1) :
            /\ b[i] = CR /\ b[i + 1] = LF
            /\ \A j \in (pos + 1)..(i - 1) : ~(b[j] = CR /\ b[j + 1] = LF)
    ELSE 0

\* the bytes of b at pos + 1 .. pos + Len(body) + 2 are body and then CRLF
BodyThenCRLF(b, pos, body) ==
    /\ Len(b) >= pos + Len(body) + 2
    /\ Slice(b, pos + 1, pos + Len(body)) = body
    /\ Slice(b, pos + Len(body) + 1, pos + Len(body) + 2) = CRLF

RECURSIVE LayoutEnd(_, _, _), LayoutEndAll(_, _, _), LayoutEndPairs(_, _, _)

\* the position in b after the layouts of the frames fs, one after the
\* other from pos with nothing in between, or -1 where b departs from them
LayoutEndAll(fs, b, pos) ==
    IF pos < 0 \/ fs = <<>> THEN pos
    ELSE LayoutEndAll(Tail(fs), b, LayoutEnd(Head(fs), b, pos))

\* the same for the pairs of a map: the key and then the value of each
LayoutEndPairs(ps, b, pos) ==
    IF pos < 0 \/ ps = <<>> THEN pos
    ELSE LayoutEndPairs(Tail(ps), b,
                        LayoutEnd(Head(ps)[2], b, LayoutEnd(Head(ps)[1], b, pos)))

\* the position in b after the wire layout of the frame f read from pos, or
\* -1 where b departs from the layout: the type byte, a header line that
\* ends with CRLF and reads as the length or count, the payload and its CRLF
LayoutEnd(f, b, pos) ==
    IF pos < 0 \/ pos >= Len(b) THEN -1
    ELSE IF b[pos + 1] # TypeByte(f) THEN -1
    ELSE IF f.t \in {"SimpleString", "SimpleError"}
    THEN IF BodyThenCRLF(b, pos + 1, f.v) THEN pos + 1 + Len(f.v) + 2 ELSE -1
    ELSE LET cr == FirstCRLF(b, pos + 1)
             head == Slice(b, pos + 2, cr - 1)
             n == ParseInt(head, FALSE)
         IN  IF cr = 0 THEN -1
             ELSE CASE f.t = "Integer" ->
                         IF ParseInt(head, TRUE).ok /\ ParseInt(head, TRUE).v = f.v
                         THEN cr + 1 ELSE -1
                    [] f.t = "Null" -> IF head = <<>> THEN cr + 1 ELSE -1
                    [] f.t = "Boolean" ->
                         IF head = <<IF f.v THEN "t" ELSE "f">> THEN cr + 1 ELSE -1
                    [] f.t = "Double" ->
                         IF ParseF64(head).ok /\ ParseF64(head).v = f.v
                         THEN cr + 1 ELSE -1
                    [] f.t \in {"BulkString", "BulkError"} ->
                         IF n.ok /\ n.v = Len(f.v) /\ BodyThenCRLF(b, cr + 1, f.v)
                         THEN cr + 1 + Len(f.v) + 2 ELSE -1
                    [] f.t = "VerbatimString" ->
                         IF /\ n.ok
                            /\ BodyThenCRLF(b, cr + 1, f.v[1] \o <<":">> \o f.v[2])
                         THEN cr + 1 + Len(f.v[1]) + 1 + Len(f.v[2]) + 2 ELSE -1
                    [] f.t \in {"Array", "Set"} ->
                         IF n.ok /\ n.v = Len(f.v)
                         THEN LayoutEndAll(f.v, b, cr + 1) ELSE -1
                    [] f.t = "Map" ->
                         IF n.ok /\ n.v = Len(f.v)
                         THEN LayoutEndPairs(f.v, b, cr + 1) ELSE -1
                    [] OTHER -> -1

\* C21: the bytes serialize emits for a frame follow the wire layout exactly:
\* the type byte, for BulkString and BulkError a decimal length equal to the
\* payload length, for Array and Set a decimal count equal to the number of
\* children and for Map to the number of pairs, every header and payload
\* ended by CRLF, the children (key then value of each pair) in order with
\* nothing in between and nothing after the last.
C21_WireLayout ==
    (exp.k \in {"RoundTrip", "Serialize"} /\ exp.ser.st = "Ok") =>
        LayoutEnd(IF exp.k = "RoundTrip" THEN CodecFrames[exp.i] ELSE exp.frame,
                  exp.ser.bytes, 0) = Len(exp.ser.bytes)

\* a Map with a pair and an Array of two children were serialized
C21_Witness ==
    /\ exp.k = "RoundTrip"
    /\ exp.ser.st = "Ok"
    /\ CodecFrames[exp.i].t = "Map"
    /\ Len(CodecFrames[exp.i].v) = 1
    /\ CodecFrames[exp.i].v[1][2].t = "Array"

\* C22: the body of a bulk string is delimited by its length prefix: for
\* every payload of L bytes, line breaks among them or not, try_parse on
\* `$L\r\n<payload>\r\n` is Complete with BulkString of exactly those bytes
\* and the cursor at the end of the input.
C22_BulkByLength ==
    (exp.k = "ParseBytes" /\ exp.bytes \in BulkInputs) =>
        /\ exp.res.st = "Complete"
        /\ exp.res.frame.t = "BulkString"
        /\ exp.bytes = LengthPrefixed("$", Len(exp.res.frame.v),
                                      exp.res.frame.v \o CRLF)
        /\ exp.res.pos = Len(exp.bytes)

\* a bulk string whose payload is `a\r\n` was parsed whole
C22_Witness ==
    /\ exp.k = "ParseBytes"
    /\ exp.bytes = LengthPrefixed("$", 3, <<"a", CR, LF>> \o CRLF)
    /\ exp.res.st = "Complete"
    /\ exp.res.frame = BulkString(<<"a", CR, LF>>)

\* C23: on a `$` or `!` input with length L >= 0 and L + 2 bytes after the
\* header, the two bytes after the L payload bytes must be CRLF: where they
\* are not, try_parse is InvalidFrame and produces no frame.
C23_TerminatorChecked ==
    (exp.k = "ParseBytes" /\ exp.bytes \in BadEndInputs) =>
        /\ exp.res.st = "InvalidFrame"
        /\ exp.res.frame = NoFrame

\* C24: a negative length or count that is not the null sentinel of `$` or
\* `*` makes try_parse reject the input, for each of `$`, `!`, `=`, `*`, `~`
\* and `%`: no frame is produced, the input is not taken as incomplete, and
\* the call does not abort.
C24_NegativeLengthRejected ==
    (exp.k = "ParseBytes" /\ exp.bytes \in NegativeInputs) =>
        /\ Rejected(exp.res.st)
        /\ exp.res.frame = NoFrame

\* the number a string of digits writes
RECURSIVE DigitsNumber(_)
DigitsNumber(ds) ==
    IF ds = <<>> THEN 0
    ELSE 10 * DigitsNumber(Take(ds, Len(ds) - 1)) + DigitVal(ds[Len(ds)])

\* a decimal text: an optional sign at position 0, then one or more digits
IsDecimalText(t) ==
    LET ds == IF t # <<>> /\ t[1] \in {"+", "-"} THEN Tail(t) ELSE t
    IN  ds # <<>> /\ \A i \in 1..Len(ds) : IsDigit(ds[i])

\* the value of a decimal text
DecimalValue(t) ==
    IF t[1] = "-" THEN -DigitsNumber(Tail(t))
    ELSE IF t[1] = "+" THEN DigitsNumber(Tail(t))
    ELSE DigitsNumber(t)

\* C25: on `:` followed by a text and CRLF, try_parse returns Integer with
\* the value of the text where the text is a decimal text (optional sign at
\* position 0) whose value fits the signed 64-bit range, with the cursor after
\* the CRLF; every other text (a value out of range, a byte that is not a
\* digit) is rejected: no frame, no wrapped value, and not IncompleteFrame.
C25_IntegerTexts ==
    (exp.k = "ParseBytes" /\ exp.bytes \in IntegerInputs) =>
        LET cr == FirstCRLF(exp.bytes, 1)
            text == Slice(exp.bytes, 2, cr - 1)
        IN  IF IsDecimalText(text) /\ DecimalValue(text) \in I64Min..I64Max
            THEN /\ exp.res.st = "Complete"
                 /\ exp.res.frame.t = "Integer"
                 /\ exp.res.frame.v = DecimalValue(text)
                 /\ exp.res.pos = cr + 1
            ELSE /\ Rejected(exp.res.st)
                 /\ exp.res.frame = NoFrame

\* C26: on `=L\r\n<body>\r\n` try_parse requires L >= 4 and `:` as the
\* fourth byte of the body: otherwise the input is rejected, with no frame
\* and no abort; where both hold, the result is VerbatimString of the first
\* three bytes as the encoding and the bytes after the colon as the payload.
C26_VerbatimShape ==
    (exp.k = "ParseBytes" /\ exp.bytes \in VerbatimInputs) =>
        LET cr == FirstCRLF(exp.bytes, 1)
            body == Slice(exp.bytes, cr + 2, Len(exp.bytes) - 2)
        IN  IF Len(body) >= 4 /\ body[4] = ":"
            THEN /\ exp.res.st = "Complete"
                 /\ exp.res.frame.t = "VerbatimString"
                 /\ exp.res.frame = VerbatimString(Take(body, 3), Drop(body, 4))
            ELSE /\ Rejected(exp.res.st)
                 /\ exp.res.frame = NoFrame

\* C27: for every VerbatimString that serialize accepts, the length prefix
\* emitted equals the number of bytes between the CRLF of the header and the
\* final CRLF, which are the encoding, the colon and the payload; this holds
\* with an encoding of three bytes, and no VerbatimString with an encoding of
\* another length is emitted with a prefix that disagrees with its body.
C27_VerbatimLength ==
    (exp.k = "Serialize" /\ exp.ser.st = "Ok") =>
        LET cr == FirstCRLF(exp.ser.bytes, 1)
            prefix == ParseInt(Slice(exp.ser.bytes, 2, cr - 1), FALSE)
            body == Slice(exp.ser.bytes, cr + 2, Len(exp.ser.bytes) - 2)
        IN  /\ cr > 0
            /\ EndsWith(exp.ser.bytes, CRLF)
            /\ body = exp.frame.v[1] \o <<":">> \o exp.frame.v[2]
            /\ prefix.ok
            /\ prefix.v = Len(body)

\* C28: a `+` or `-` line with a CR or LF in its text, before the CRLF that
\* ends it, is rejected as invalid: try_parse reports it neither as
\* IncompleteFrame nor as a frame.
C28_InteriorBreakRejected ==
    (/\ exp.k = "ParseBytes"
     /\ exp.bytes \in SimpleInputs
     /\ \E i \in 2..(FirstCRLF(exp.bytes, 1) - 1) : exp.bytes[i] \in {CR, LF}) =>
        /\ Rejected(exp.res.st)
        /\ exp.res.frame = NoFrame

\* C29: a parse attempt of the connection that ends as incomplete (more
\* bytes are needed) or with an error leaves the read buffer byte for byte
\* as it was; only an attempt that yields a frame changes the buffer.
C29_BufferKept ==
    (exp.k = "TryParseFrame" /\ (exp.out.more \/ exp.out.res.st = "Err")) =>
        exp.out.buffer = exp.buf

(***************************************************************************)
(* Claims on the responses of the facade                                   *)
(***************************************************************************)
\* the kinds of frame that the table of coercions gives bytes to
TableKinds == {"BulkString", "SimpleString", "Integer", "Boolean", "Double"}

\* the bytes the table of coercions gives to a frame of one of TableKinds
TableBytes(f) ==
    CASE f.t \in {"BulkString", "SimpleString"} -> f.v
      [] f.t = "Integer" -> IntToString(f.v)
      [] f.t = "Boolean" ->
            IF f.v THEN <<"t", "r", "u", "e">> ELSE <<"f", "a", "l", "s", "e">>
      [] f.t = "Double" -> F64ToString(f.v)

RECURSIVE TableBytesAll(_)
TableBytesAll(fs) ==
    IF fs = <<>> THEN <<>> ELSE TableBytes(Head(fs)) \o TableBytesAll(Tail(fs))

\* the child of an Array response has bytes by the table, or is an Array of
\* such children
TableChild(f) ==
    \/ f.t \in TableKinds
    \/ f.t = "Array" /\ \A j \in 1..Len(f.v) : f.v[j].t \in TableKinds

\* C31: an Array answer to lrange is returned as one byte string per child,
\* in wire order, each child coerced by the table of the top level
\* (BulkString and SimpleString to their bytes, Integer and Double to their
\* decimal text, Boolean to true / false) and a nested Array to the
\* concatenation of its children's coerced bytes.
C31_ArrayCoercion ==
    (exp.k = "Answer" /\ exp.m = "lrange" /\ exp.frame.t = "Array")
        => /\ exp.out.st = "Ok"
           /\ Len(exp.out.v) = Len(exp.frame.v)
           /\ \A j \in 1..Len(exp.frame.v) :
                 LET child == exp.frame.v[j]
                 IN  TableChild(child)
                        => exp.out.v[j] = IF child.t = "Array" THEN TableBytesAll(child.v)
                                          ELSE TableBytes(child)

\* the key of a pair of a Map answer coerces to UTF-8 text, its value to bytes
PairCoerces(pair) ==
    /\ pair[1].t \in TableKinds
    /\ pair[1].t \in {"BulkString", "SimpleString"}
          => \A i \in 1..Len(pair[1].v) : pair[1].v[i] # ByteFF
    /\ pair[2].t \in TableKinds

\* the mapping has the entry of the pair, unless a later pair has the same key
HasEntry(map, pairs, j) ==
    /\ TableBytes(pairs[j][1]) \in DOMAIN map
    /\ (\A i \in (j + 1)..Len(pairs) : pairs[i][1] # pairs[j][1])
          => map[TableBytes(pairs[j][1])] = TableBytes(pairs[j][2])

\* C32: a Map answer to hello is returned as a mapping with an entry for
\* every pair, the key as UTF-8 text and the value as bytes; when a key
\* does not coerce to UTF-8 text or a value does not coerce to bytes the
\* call fails with an error and returns no mapping with that pair missing.
C32_MapCoercion ==
    (exp.k = "Answer" /\ exp.m = "hello" /\ exp.frame.t = "Map")
        => IF \A j \in 1..Len(exp.frame.v) : PairCoerces(exp.frame.v[j])
           THEN /\ exp.out.st = "Ok"
                /\ \A j \in 1..Len(exp.frame.v) : HasEntry(exp.out.v, exp.frame.v, j)
           ELSE exp.out.st = "Err"

\* n is a value of the return type of the integer-typed method m
InReturnRange(m, n) ==
    IF m \in UnsignedMethods THEN 0 <= n /\ n <= USizeMax
    ELSE I64Min <= n /\ n <= I64Max

\* C33: an integer-typed facade method (del, exists, expire, lpush, rpush
\* unsigned; ttl, incr, decr signed) that reads Integer(n) returns exactly n
\* when n is in its return range and fails with an error when it is not; on
\* a textual answer it fails with an error unless the text is a decimal
\* integer, and a value it returns is the value of the text, in range: no
\* value is wrapped or truncated.
C33_IntegerReply ==
    (exp.k = "Answer" /\ exp.m \in UnsignedMethods \cup SignedMethods
        /\ exp.frame.t \in {"Integer", "BulkString", "SimpleString"})
        => /\ exp.out.st \in {"Ok", "Err"}
           /\ exp.frame.t = "Integer"
                 => IF InReturnRange(exp.m, exp.frame.v)
                    THEN exp.out.st = "Ok" /\ exp.out.v = exp.frame.v
                    ELSE exp.out.st = "Err"
           /\ (exp.frame.t # "Integer" /\ exp.out.st = "Ok")
                 => /\ IsDecimalText(exp.frame.v)
                    /\ exp.out.v = DecimalValue(exp.frame.v)
                    /\ InReturnRange(exp.m, exp.out.v)

\* del has returned 1 on `:1`, or ttl has returned -2 on `:-2`
C33_Witness ==
    /\ exp.k = "Answer"
    /\ \/ /\ exp.m = "del" /\ exp.frame.t = "Integer" /\ exp.frame.v = 1
          /\ exp.out.st = "Ok" /\ exp.out.v = 1
       \/ /\ exp.m = "ttl" /\ exp.frame.t = "Integer" /\ exp.frame.v = -2
          /\ exp.out.st = "Ok" /\ exp.out.v = -2

\* C34: no facade call ends with an error of the kind Unknown; a call whose
\* peer closes the stream cleanly before it answers fails with an I/O or
\* end-of-stream error.
C34_NoUnknown ==
    cres.out.st = "Err" => cres.out.err # "Unknown"

\* C35: the read buffer never grows past the configured maximum: when the
\* peer keeps sending bytes that never complete a frame, read_frame fails
\* before the buffer is longer than the maximum.
C35_BufferCapped ==
    Len(buffer) <= MaxBufferLen

(***************************************************************************)
(* Claims on the order of the write and the read of a facade call          *)
(***************************************************************************)
\* read_frame returns in this step
ReadReturns == rres.st = "none" /\ rres'.st \in {"Some", "None", "Err", "Panic"}

\* read_frame is waiting, or returns in this step, for a facade call
ReadsForCall == call # "none" /\ (pc' = "read" \/ ReadReturns)

\* the step of a facade call in which its write_frame fails
WriteFails == call # "none" /\ wres # "Err" /\ wres' = "Err"

\* C36: in a facade call read_frame runs only after the write_frame of that
\* call has returned success; when write_frame fails the method returns the
\* error and nothing is read; a response frame is taken from the buffer only
\* by a call whose request is fully written, and that call ends with it, so
\* the frames consumed never outnumber the requests written; a call that
\* succeeds has written exactly its one request frame and consumed exactly
\* the one frame that answers it.
C36_Step ==
    /\ ReadsForCall
          => /\ wres' = "Ok"
             /\ txCall' = Serialize(Request(call)).bytes
             /\ wbuf' = <<>> /\ pending' = <<>>
    /\ WriteFails
          => /\ call' = "none" /\ pc' = "idle"
             /\ cres'.m = call /\ cres'.out = CallErr("Io")
             /\ rres'.st = "none"
             /\ UNCHANGED <<buffer, rx, unreturned, inflight>>
    /\ (rres'.took # <<>> /\ rres'.took # rres.took)
          => /\ ReadsForCall /\ ReadReturns
             /\ call' = "none"
    /\ (call # "none" /\ call' = "none" /\ cres'.out.st = "Ok")
          => /\ ReadsForCall /\ ReadReturns
             /\ rres'.st = "Some"
             /\ cres'.expect > 0
             /\ rres'.took = PeerMenu[cres'.expect].wire
             /\ buffer' \o rx' = Drop(buffer \o rx, Len(rres'.took))

C36_WriteThenRead == [][C36_Step]_vars

\* the second call on a client has succeeded, its request written and its
\* answer read
C36_Witness ==
    /\ ncalls = 2 /\ call = "none" /\ pc = "idle"
    /\ cres.out.st = "Ok" /\ wres = "Ok" /\ rres.st = "Some"
    /\ txCall = Serialize(Request(cres.m)).bytes
    /\ cres.expect > 0 /\ rres.took = PeerMenu[cres.expect].wire

\* C37: a facade call that fails because its answer is a SimpleError or a
\* BulkError, or has a shape the method does not expect, has taken exactly
\* the bytes of that one answer off the stream and left nothing behind; the
\* read_frame of the next call on the Client takes exactly the bytes of the
\* answer to that call, and a frame it returns is the frame of that answer.
C37_FailedThenNext ==
    /\ (call = "none" /\ FailedOnResponse(cres))
          => /\ rres.st = "Some"
             /\ cres.expect > 0
             /\ rres.took = PeerMenu[cres.expect].wire
             /\ buffer = <<>> /\ rx = <<>> /\ inflight = <<>>
    /\ (cres.m # "none" /\ cres.afterFailed /\ cres.expect > 0 /\ ~broken)
          => /\ rres.took = PeerMenu[cres.expect].wire
             /\ rres.st = "Some"
                   => /\ rres.frame.t = PeerMenu[cres.expect].frame.t
                      /\ rres.frame = PeerMenu[cres.expect].frame
                      /\ cres.out = MethodResult(cres.m, ReadSome(rres.frame))

\* a call has failed on the answer `-E`, and the ping after it has returned
\* its own answer
C37_Witness ==
    /\ cres.m = "ping"
    /\ cres.afterFailed
    /\ cres.expect = 1
    /\ cres.out = CallOk("bytes", <<"O", "K">>)
    /\ buffer = <<>>

(***************************************************************************)
(* Claims on the termination of read_frame                                 *)
(***************************************************************************)
\* the bytes s start with the wire form of a whole frame of the peer
StartsWithFrame(s) ==
    \E i \in ConnMenu :
        /\ Len(PeerMenu[i].wire) <= Len(s)
        /\ Take(s, Len(PeerMenu[i].wire)) = PeerMenu[i].wire

\* a read_frame is pending and the peer has delivered the rest of a whole
\* frame, or has closed the stream
Delivered ==
    /\ pc = "read"
    /\ closed \/ StartsWithFrame(buffer \o rx)

\* read_frame has returned a frame, the end of the stream or an error
Returned == pc = "idle" /\ rres.st \in {"Some", "None", "Err"}

\* C38: under fair delivery read_frame terminates: once the peer has
\* delivered the remaining bytes of a whole valid frame or has closed the
\* stream, a pending read_frame eventually returns a frame, the end of the
\* stream or an error; and read_frame never waits for more bytes while the
\* read buffer starts with a whole frame.
C38_ReadTerminates ==
    /\ [](pc = "read" => ~StartsWithFrame(buffer))
    /\ Delivered ~> Returned
====
